---- MODULE Spec2Model ----
(***************************************************************************)
(* UDP event export of tetragon: pkg/encoder/udp_encoder.go (UDPEncoder:    *)
(* Encode, Write, Close over a sync.Pool of unbound UDP sockets) and        *)
(* pkg/exporter/udp_exporter.go (UDPExporter: Send, Close,                  *)
(* SendMetadataEvent behind a mutex and an optional rate limiter).          *)
(*                                                                         *)
(* Goroutines are the processes Procs.  A call is cut into steps at its     *)
(* accesses to shared state (the atomic closed flag, the exporter mutex,    *)
(* the socket pool, the network); everything a goroutine does between two   *)
(* such accesses belongs to one step.                                       *)
(***************************************************************************)
EXTENDS Integers, Sequences, FiniteSets, TLC

\* ------------------------------------------------------------------ bounds
NumProcs   == 2      \* goroutines calling into the exporter and the encoder
MaxCalls   == 3      \* calls started in one behaviour
MaxSockets == 2      \* sockets the process can create in one behaviour
MaxOver    == 1      \* how far an input may exceed MaxUDPSize, in bytes
Burst      == 1      \* tokens the rate limiter can hold
MaxPoolSockets == 12 \* sockets, where the pool is filled beyond poolSize
MaxPoolCalls   == 12 \* calls started, where the pool is filled beyond poolSize

\* --------------------------------------------------------- program constants
MaxUDPSize == 65507
poolSize   == 10

Procs == 1..NumProcs
Socks == 1..MaxSockets

\* ------------------------------------------------------------ byte strings
\* A byte string is kept run-length encoded: a sequence of runs [b, n], n >= 1
\* copies of byte b, adjacent runs of different bytes.  Two byte strings are
\* equal iff their encodings are.
NL    == "\n"
LBr   == "{"
RBr   == "}"
ChX   == "x"     \* a payload byte that is no newline

Run(b, n) == [b |-> b, n |-> n]

RECURSIVE BLen(_)
BLen(s) == IF s = <<>> THEN 0 ELSE Head(s).n + BLen(Tail(s))

\* append(s, b)
BAppend(s, b) ==
    IF s # <<>> /\ s[Len(s)].b = b
    THEN [s EXCEPT ![Len(s)] = Run(b, @.n + 1)]
    ELSE Append(s, Run(b, 1))

\* s[:k], for 0 <= k <= len(s)
RECURSIVE BTake(_, _)
BTake(s, k) ==
    IF k <= 0 \/ s = <<>> THEN <<>>
    ELSE IF Head(s).n >= k THEN <<Run(Head(s).b, k)>>
    ELSE <<Head(s)>> \o BTake(Tail(s), k - Head(s).n)

\* s[i-1]: the i-th byte of s, for 1 <= i <= len(s)
RECURSIVE BAt(_, _)
BAt(s, i) == IF i <= Head(s).n THEN Head(s).b ELSE BAt(Tail(s), i - Head(s).n)

\* the last byte of a non-empty s
BLast(s) == s[Len(s)].b

EndsWithNL(s) == s # <<>> /\ BLast(s) = NL

\* ------------------------------------------------------------------ inputs
\* An event is the value handed to Encode: its dynamic type (shape), whether
\* protojson can marshal it, and the number of payload bytes of its JSON.
\* The sizes are those around the limit: a JSON that with its newline has
\* exactly MaxUDPSize bytes, and longer ones (the metadata event is a short one).
EventSizes == {MaxUDPSize - 3 + d : d \in 0..MaxOver}

GetEventsResponses ==
    {[shape |-> "GetEventsResponse", marshal |-> "ok", size |-> k] : k \in EventSizes}
    \cup {[shape |-> "GetEventsResponse", marshal |-> "err", size |-> 1]}

Values == GetEventsResponses \cup {[shape |-> "string", marshal |-> "ok", size |-> 1]}

\* The metadata event: a ProcessExec of binary "tetragon_metadata".
MetadataEvent == [shape |-> "GetEventsResponse", marshal |-> "ok", size |-> 1]

\* u.jsonOpts.Marshal(event): one JSON object on one line, no raw newline.
Marshal(event) == <<Run(LBr, 1), Run(ChX, event.size), Run(RBr, 1)>>

\* The buffers handed to Write: a short line, buffers of MaxUDPSize bytes and
\* more without a newline, and oversized ones whose byte MaxUDPSize is a
\* newline (where p[:MaxUDPSize] cuts).
Buffers ==
    {<<Run(ChX, 2), Run(NL, 1)>>}
    \cup {<<Run(ChX, MaxUDPSize + d)>> : d \in 0..MaxOver}
    \cup {<<Run(ChX, MaxUDPSize - 1), Run(NL, 1), Run(ChX, d)>> : d \in 1..MaxOver}

\* The metadata snapshot (MetadataEvent of the caching revision) and its JSON.
\* Two snapshots differ in their timestamp, hostname, udp_destination and
\* udp_buffer_size; the other fields are fixed for the process.
ChT      == "t"      \* one unit of the timestamp
ChBuf    == "#"      \* one unit of udp_buffer_size
Hostname == "h"      \* the hostname os.Hostname() returns when it succeeds
Unknown  == "u"      \* "unknown"

\* The (udpDestination, udpBufferSize) arguments of SendMetadataEvent.
MetadataArgs == {[dest |-> "d", buf |-> 1], [dest |-> "e", buf |-> 2]}

\* NewMetadataEvent(udpDestination, udpBufferSize), built at time t with the
\* hostname getCachedHostname() returned.
NewMetadataEvent(host, a, t) == [t |-> t, host |-> host, dest |-> a.dest, buf |-> a.buf]

\* metadataEvent.ToJSON(), when it succeeds.
ToJSON(m) ==
    <<Run(LBr, 1), Run(ChT, m.t), Run(m.host, 1), Run(m.dest, 1), Run(ChBuf, m.buf),
      Run(RBr, 1)>>

\* The destination given to NewUDPEncoder(address, port, bufferSize): an IP
\* literal, a host name the resolver knows, and one it does not know.
Addresses == {"127.0.0.1", "localhost", "invalid-address"}
Ports     == {514, 65535}

NoAddr    == [ip |-> "", port |-> 0]       \* net.ResolveUDPAddr returned an error
NoEncoder == [ip |-> "nil", port |-> 0]    \* the *UDPEncoder is nil

\* net.ResolveUDPAddr("udp", fmt.Sprintf("%s:%d", address, port)): the IP
\* literal is kept, the known host name becomes its IP and the unknown one fails.
ResolveUDPAddr(address, port) ==
    CASE address = "127.0.0.1" -> [ip |-> "127.0.0.1", port |-> port]
      [] address = "localhost" -> [ip |-> "127.0.0.1", port |-> port]
      [] OTHER -> NoAddr

\* addr.String(): "ip:port".
AddrString(addr) == <<addr.ip, ":", addr.port>>

\* The destination of the encoder whose construction precedes Init.
DefaultAddr == ResolveUDPAddr("127.0.0.1", 514)

\* option.Config, the fields the UDP output logic of ReadAndSetFlags reads and
\* writes.  Each address is empty (the server is off), its default, or a custom
\* one; the flags are independent booleans.
DefaultHealthServerAddress == ":6789"
DefaultGopsAddr            == "localhost:8118"
DefaultServerAddress       == "localhost:54321"

Configs ==
    [UDPOutputEnabled : BOOLEAN,
     HealthServerAddress : {"", DefaultHealthServerAddress, ":9999"},
     GopsAddr : {"", DefaultGopsAddr, "localhost:9000"},
     MetricsServer : {"", ":2112"},
     PprofAddr : {"", "localhost:6060"},
     EnableK8s : BOOLEAN,
     EnablePolicyFilter : BOOLEAN,
     EnablePolicyFilterCgroupMap : BOOLEAN,
     EnablePolicyFilterDebug : BOOLEAN,
     EnablePodInfo : BOOLEAN,
     EnableTracingPolicyCRD : BOOLEAN,
     EnableCRI : BOOLEAN,
     GRPCEnabled : BOOLEAN,
     ServerAddress : {"", DefaultServerAddress}]

\* The configuration when no flag is given.
DefaultConfig ==
    [UDPOutputEnabled |-> FALSE,
     HealthServerAddress |-> DefaultHealthServerAddress,
     GopsAddr |-> DefaultGopsAddr,
     MetricsServer |-> "",
     PprofAddr |-> "",
     EnableK8s |-> FALSE,
     EnablePolicyFilter |-> FALSE,
     EnablePolicyFilterCgroupMap |-> FALSE,
     EnablePolicyFilterDebug |-> FALSE,
     EnablePodInfo |-> FALSE,
     EnableTracingPolicyCRD |-> FALSE,
     EnableCRI |-> FALSE,
     GRPCEnabled |-> FALSE,
     ServerAddress |-> DefaultServerAddress]

\* ------------------------------------------------------------------ errors
Nil               == "nil"
ErrEncoderClosed  == "UDP encoder is closed"
ErrExporterClosed == "UDP exporter is closed"
ErrInvalidEvent   == "invalid event"
ErrMarshal        == "marshal error"
ErrSocket         == "failed to create unbound UDP socket"
ErrWrite          == "write error"
ErrRefused        == "connection refused"
ErrResolve        == "failed to resolve UDP address"
ErrToJSON         == "failed to marshal metadata event"
ErrStart          == "error starting UDP exporter"

\* ------------------------------------------------------------------- state
VARIABLES
    u_closed,             \* UDPEncoder.closed (int32, atomic)
    sock,                 \* every socket the encoder can create: its state
    net,                  \* the datagrams written to the network, in order
    e_closed,             \* UDPExporter.closed (guarded by e_mu)
    e_mu,                 \* UDPExporter.mu: 0, or the goroutine holding it
    rateLimiter,          \* UDPExporter.rateLimiter is non-nil
    tokens,               \* the rate limiter's tokens
    limiterDrops,         \* RateLimiter.Drop() calls
    rateLimitDropped,     \* metric rateLimitDropped
    eventsExportedTotal,  \* metric eventsExportedTotal (set with eventsExportTimestamp)
    call,                 \* per goroutine: the call it is in, or returned from
    ncalls,               \* calls started so far
    u_closeRet,           \* history: a UDPEncoder.Close() has returned
    e_closeRet,           \* history: a UDPExporter.Close() has returned
    encoderCloses,        \* history: UDPEncoder.Close() calls made by UDPExporter.Close
    metadataOnce,         \* UDPExporter.metadataOnce: "new", "running" or "done"
    cachedMetadata,       \* UDPExporter.cachedMetadata (<<>> is nil)
    hostnameOnce,         \* hostnameOnce: "new", "running" or "done"
    cachedHostname,       \* cachedHostname ("" until resolved)
    computations,         \* history: metadata snapshots built and serialized
    okComputations,       \* history: those whose serialization succeeded
    onceRuns,             \* history: runs of the function given to metadataOnce.Do
    hostnameCalls,        \* history: os.Hostname() calls
    hostnameErr,          \* history: os.Hostname() has failed
    stream,               \* the goroutine Start spawns: where GetEventsWG is
    readyWG,              \* Start's readyWG counter
    exporterStartErr,     \* Start's exporterStartErr
    u_addr,               \* UDPEncoder.addr (NoEncoder: no encoder was constructed)
    listener,             \* a UDP listener is bound at the destination
    Config,               \* option.Config, the fields the UDP output touches
    Initial,              \* history: Config as it was read from the flags
    applied               \* history: the parts of the UDP output logic that have run

encVars  == <<u_closed, sock, net, u_closeRet>>
expVars  == <<e_closed, e_mu, rateLimiter, tokens, limiterDrops, rateLimitDropped,
              eventsExportedTotal, e_closeRet, encoderCloses>>
metaVars == <<metadataOnce, cachedMetadata, hostnameOnce, cachedHostname, computations,
              okComputations, onceRuns, hostnameCalls, hostnameErr>>
startVars == <<stream, readyWG, exporterStartErr>>
optVars  == <<Config, Initial, applied>>
vars     == <<u_closed, sock, net, e_closed, e_mu, rateLimiter, tokens, limiterDrops,
              rateLimitDropped, eventsExportedTotal, call, ncalls, u_closeRet,
              e_closeRet, encoderCloses, metaVars, startVars, u_addr, listener,
              optVars>>

\* A socket (sock[s]) is "unborn" (not created yet), "pooled" (idle in
\* connPool), "held" (checked out by a call) or "closed".

NoFrame ==
    [op |-> "none", pc |-> "idle", v |-> MetadataEvent, p |-> <<>>, data |-> <<>>,
     conn |-> 0, err |-> Nil, n |-> 0,
     aftU |-> FALSE, aftE |-> FALSE, aftErr |-> FALSE, open |-> FALSE, gets |-> 0,
     tries |-> 0,
     xmit |-> 0, allow |-> "none", drop |-> 0, dExp |-> 0, dDrop |-> 0,
     a |-> [dest |-> "d", buf |-> 1], k |-> "none", host |-> "", ran |-> FALSE,
     during |-> FALSE, was |-> <<>>, aftOk |-> FALSE, miss |-> FALSE, comp |-> 0,
     lsn |-> "none", to |-> NoAddr, str |-> <<>>, aftInv |-> FALSE, late |-> FALSE]

\* A Send has returned an error of its Encode (marshal, socket or encoder error).
SendFailed ==
    \E r \in Procs :
        /\ call[r].op = "Send" /\ call[r].pc = "ret"
        /\ call[r].err \notin {Nil, ErrExporterClosed}

\* The frame of a call that starts now.  aftU, aftE: an encoder / exporter
\* Close() had returned when the call started.  aftErr: a Send had returned an
\* error when the call started.  open: the call read u.closed
\* as 0.  gets: sockets taken from the pool; tries: socket writes attempted;
\* xmit: datagrams transmitted; allow: what Allow() answered ("none" when not
\* asked); drop: Drop() calls; dExp, dDrop: increments of the two metrics.
\* For the metadata path: a: the arguments (udpDestination, udpBufferSize);
\* k: who asked for the hostname ("once", "fallback", "direct"); host: the
\* hostname the call got; ran: the call ran the function of metadataOnce;
\* during: that function was running when the call started; was:
\* cachedMetadata when the call started; aftOk: a serialization had succeeded
\* when the call started; miss: the call read cachedMetadata as nil; comp:
\* snapshots the call built and serialized.
\* lsn: whether a listener was bound when the call wrote to its socket; to:
\* the address the call passed to WriteToUDP; str: the string a call returned;
\* aftInv: an Encode had returned ErrInvalidEvent when this Encode started;
\* late: an encoder Close() had returned when the call asked the pool for a socket.
Frame(op, pc) ==
    [NoFrame EXCEPT !.op = op, !.pc = pc, !.aftU = u_closeRet, !.aftE = e_closeRet,
                    !.aftErr = SendFailed]

\* The exporter and its encoder after construction: nothing sent, nothing closed.
InitButPool ==
    /\ u_closed = 0
    /\ net = <<>>
    /\ e_closed = FALSE
    /\ e_mu = 0
    /\ rateLimiter \in BOOLEAN
    /\ tokens = IF rateLimiter THEN Burst ELSE 0
    /\ limiterDrops = 0
    /\ rateLimitDropped = 0
    /\ eventsExportedTotal = 0
    /\ call = [q \in Procs |-> NoFrame]
    /\ ncalls = 0
    /\ u_closeRet = FALSE
    /\ e_closeRet = FALSE
    /\ encoderCloses = 0
    /\ metadataOnce = "new"
    /\ cachedMetadata = <<>>
    /\ hostnameOnce = "new"
    /\ cachedHostname = ""
    /\ computations = 0
    /\ okComputations = 0
    /\ onceRuns = 0
    /\ hostnameCalls = 0
    /\ hostnameErr = FALSE
    /\ stream = "none"
    /\ readyWG = 0
    /\ exporterStartErr = Nil

\* connPool is empty, and MaxSockets sockets can be created.
InitCore ==
    /\ InitButPool
    /\ sock = [s \in Socks |-> "unborn"]

\* The encoder was constructed for DefaultAddr, where nobody listens; the
\* configuration is not under study.
Init ==
    /\ InitCore
    /\ u_addr = DefaultAddr
    /\ listener = FALSE
    /\ Config = DefaultConfig
    /\ Initial = DefaultConfig
    /\ applied = {}

\* Goroutine q can start a call.
CanCall(q) == call[q].pc \in {"idle", "ret"} /\ ncalls < MaxCalls

\* ---------------------------------------------------------------- UDPEncoder
\* Encode: "Truncate to fit in single packet, preserving newline".
Truncate_NoNewline(data) ==
    IF BLen(data) > MaxUDPSize THEN BTake(data, MaxUDPSize) ELSE data
Truncate(data) ==
    IF BLen(data) > MaxUDPSize
    THEN BAppend(BTake(data, MaxUDPSize - 1), NL)
    ELSE data

\* Encode's datagram for a marshalled event: the JSON, a newline, truncated.
Datagram_NoNewline(event) == Truncate(Marshal(event))
Datagram(event) == Truncate(BAppend(Marshal(event), NL))

\* Write: p = p[:MaxUDPSize] when len(p) > MaxUDPSize.
WriteTruncate_LikeEncode(p) == Truncate(p)
WriteTruncate_Missing(p) == p
WriteTruncate_OffByOne(p) ==
    IF BLen(p) >= MaxUDPSize THEN BTake(p, MaxUDPSize - 1) ELSE p
WriteTruncate(p) ==
    IF BLen(p) > MaxUDPSize THEN BTake(p, MaxUDPSize) ELSE p

\* The atomic load of u.closed at the head of Encode and Write.
IsClosed_Skipped == FALSE
IsClosed == u_closed = 1

\* The smallest socket not created yet, 0 when MaxSockets have been created.
Fresh ==
    IF \E s \in DOMAIN sock : sock[s] = "unborn"
    THEN CHOOSE s \in DOMAIN sock :
             sock[s] = "unborn" /\ \A t \in DOMAIN sock : sock[t] = "unborn" => s <= t
    ELSE 0

\* A call returns with frame f.  A Send that called Encode resumes here: it
\* counts the export when Encode returned nil, and its deferred Unlock runs.
Return_CountsErrors(q, f) ==
    IF f.op = "Send"
    THEN /\ e_mu' = 0
         /\ eventsExportedTotal' = eventsExportedTotal + 1
         /\ call' = [call EXCEPT ![q] = [f EXCEPT !.pc = "ret", !.dExp = @ + 1]]
    ELSE /\ call' = [call EXCEPT ![q] = [f EXCEPT !.pc = "ret"]]
         /\ UNCHANGED <<e_mu, eventsExportedTotal>>
Return(q, f) ==
    IF f.op = "Send"
    THEN /\ e_mu' = 0
         /\ IF f.err = Nil
            THEN /\ eventsExportedTotal' = eventsExportedTotal + 1
                 /\ call' = [call EXCEPT ![q] = [f EXCEPT !.pc = "ret", !.dExp = @ + 1]]
            ELSE /\ UNCHANGED eventsExportedTotal
                 /\ call' = [call EXCEPT ![q] = [f EXCEPT !.pc = "ret"]]
    ELSE /\ call' = [call EXCEPT ![q] = [f EXCEPT !.pc = "ret"]]
         /\ UNCHANGED <<e_mu, eventsExportedTotal>>

\* Encode up to the pool: the closed check, the type assertion, Marshal, the
\* newline and the truncation.  f is the caller's frame, f.v the value.
EncodeEnter_NoTypeCheck(q, f) ==
    IF IsClosed THEN Return(q, [f EXCEPT !.err = ErrEncoderClosed])
    ELSE IF f.v.marshal # "ok"
    THEN Return(q, [f EXCEPT !.open = TRUE, !.err = ErrMarshal])
    ELSE /\ call' = [call EXCEPT ![q] =
                [f EXCEPT !.pc = "get", !.open = TRUE,
                          !.data = Datagram(f.v)]]
         /\ UNCHANGED <<e_mu, eventsExportedTotal>>
EncodeEnter(q, f) ==
    IF IsClosed THEN Return(q, [f EXCEPT !.err = ErrEncoderClosed])
    ELSE IF f.v.shape # "GetEventsResponse"
    THEN Return(q, [f EXCEPT !.open = TRUE, !.err = ErrInvalidEvent])
    ELSE IF f.v.marshal # "ok"
    THEN Return(q, [f EXCEPT !.open = TRUE, !.err = ErrMarshal])
    ELSE /\ call' = [call EXCEPT ![q] =
                [f EXCEPT !.pc = "get", !.open = TRUE,
                          !.data = Datagram(f.v)]]
         /\ UNCHANGED <<e_mu, eventsExportedTotal>>

\* connPool.Get(): an idle socket of the pool, or (the pool empty, or Get
\* treating it as empty) what New returns: a new socket, or nil.
PoolGet_Waits(q, hit, miss) ==
    \E s \in DOMAIN sock :
        /\ sock[s] = "pooled"
        /\ sock' = [sock EXCEPT ![s] = "held"]
        /\ call' = [call EXCEPT ![q].conn = s, ![q].gets = @ + 1, ![q].pc = hit,
                                 ![q].late = u_closeRet]
PoolGet_HandsHeld(q, hit, miss) ==
    \/ \E s \in DOMAIN sock :
          /\ sock[s] \in {"pooled", "held"}
          /\ sock' = [sock EXCEPT ![s] = "held"]
          /\ call' = [call EXCEPT ![q].conn = s, ![q].gets = @ + 1, ![q].pc = hit,
                                   ![q].late = u_closeRet]
    \/ /\ Fresh # 0
       /\ sock' = [sock EXCEPT ![Fresh] = "held"]
       /\ call' = [call EXCEPT ![q].conn = Fresh, ![q].gets = @ + 1, ![q].pc = hit,
                                ![q].late = u_closeRet]
    \/ /\ call' = [call EXCEPT ![q].pc = miss, ![q].late = u_closeRet]
       /\ UNCHANGED sock
PoolGet(q, hit, miss) ==
    \/ \E s \in DOMAIN sock :
          /\ sock[s] = "pooled"
          /\ sock' = [sock EXCEPT ![s] = "held"]
          /\ call' = [call EXCEPT ![q].conn = s, ![q].gets = @ + 1, ![q].pc = hit,
                                   ![q].late = u_closeRet]
    \/ /\ Fresh # 0
       /\ sock' = [sock EXCEPT ![Fresh] = "held"]
       /\ call' = [call EXCEPT ![q].conn = Fresh, ![q].gets = @ + 1, ![q].pc = hit,
                                ![q].late = u_closeRet]
    \/ /\ call' = [call EXCEPT ![q].pc = miss, ![q].late = u_closeRet]
       /\ UNCHANGED sock

\* The sockets are unbound and unconnected (net.ListenUDP on ":0") and the
\* destination is given to each WriteToUDP: the socket never learns that
\* nobody listens at u.addr, so no write is refused for that.  (A connected
\* socket is told so, and refuses.)
Refused_Connected == ~listener
Refused == FALSE

\* conn.WriteToUDP(data, u.addr) by call frame f: the datagram leaves, or the
\* write fails.  Gives the frame after the write.
Sent(f)   == [f EXCEPT !.tries = @ + 1, !.xmit = @ + 1, !.err = Nil,
                       !.n = BLen(f.data), !.lsn = listener, !.to = u_addr]
Failed(f) == [f EXCEPT !.tries = @ + 1, !.err = IF Refused THEN ErrRefused ELSE ErrWrite,
                       !.n = 0, !.lsn = listener, !.to = u_addr]

\* An Encode has returned ErrInvalidEvent.
InvalidReturned ==
    \E r \in Procs : call[r].pc = "ret" /\ call[r].err = ErrInvalidEvent

\* Encode(v), called on the encoder directly.
Encode(q, v) ==
    /\ CanCall(q)
    /\ ncalls' = ncalls + 1
    /\ EncodeEnter(q, [Frame("Encode", "enc") EXCEPT !.v = v, !.aftInv = InvalidReturned])
    /\ UNCHANGED <<encVars, e_closed, rateLimiter, tokens, limiterDrops,
                   rateLimitDropped, e_closeRet, encoderCloses>>
    /\ UNCHANGED <<metaVars, startVars>>
    /\ UNCHANGED <<u_addr, listener, optVars>>

\* Encode: connObj := u.connPool.Get().
EncodeGet(q) ==
    /\ call[q].pc = "get"
    /\ PoolGet(q, "write", "fallback")
    /\ UNCHANGED <<u_closed, net, u_closeRet, expVars, ncalls>>
    /\ UNCHANGED <<metaVars, startVars>>
    /\ UNCHANGED <<u_addr, listener, optVars>>

\* Encode, connObj == nil: createUnboundUDPSocket, WriteToUDP, conn.Close.
EncodeFallback_Pools(q) ==
    /\ call[q].pc = "fallback"
    /\ \/ /\ Return(q, [call[q] EXCEPT !.err = ErrSocket])
          /\ UNCHANGED <<sock, net>>
       \/ /\ Fresh # 0
          /\ sock' = [sock EXCEPT ![Fresh] = "pooled"]
          /\ \/ /\ ~Refused
                /\ net' = Append(net, call[q].data)
                /\ Return(q, Sent(call[q]))
             \/ /\ UNCHANGED net
                /\ Return(q, Failed(call[q]))
    /\ UNCHANGED <<u_closed, u_closeRet, e_closed, rateLimiter, tokens, limiterDrops,
                   rateLimitDropped, e_closeRet, encoderCloses, ncalls>>
    /\ UNCHANGED <<metaVars, startVars>>
    /\ UNCHANGED <<u_addr, listener, optVars>>
EncodeFallback(q) ==
    /\ call[q].pc = "fallback"
    /\ \/ /\ Return(q, [call[q] EXCEPT !.err = ErrSocket])
          /\ UNCHANGED <<sock, net>>
       \/ /\ Fresh # 0
          /\ sock' = [sock EXCEPT ![Fresh] = "closed"]
          /\ \/ /\ ~Refused
                /\ net' = Append(net, call[q].data)
                /\ Return(q, Sent(call[q]))
             \/ /\ UNCHANGED net
                /\ Return(q, Failed(call[q]))
    /\ UNCHANGED <<u_closed, u_closeRet, e_closed, rateLimiter, tokens, limiterDrops,
                   rateLimitDropped, e_closeRet, encoderCloses, ncalls>>
    /\ UNCHANGED <<metaVars, startVars>>
    /\ UNCHANGED <<u_addr, listener, optVars>>

\* Encode: conn.WriteToUDP(data, u.addr) on the pooled socket.
EncodeWrite_Twice(q) ==
    /\ call[q].pc = "write"
    /\ \/ /\ ~Refused
          /\ net' = Append(Append(net, call[q].data), call[q].data)
          /\ call' = [call EXCEPT ![q] = [Sent(call[q]) EXCEPT !.pc = "put"]]
       \/ /\ UNCHANGED net
          /\ call' = [call EXCEPT ![q] = [Failed(call[q]) EXCEPT !.pc = "put"]]
    /\ UNCHANGED <<u_closed, sock, u_closeRet, expVars, ncalls>>
    /\ UNCHANGED <<metaVars, startVars>>
    /\ UNCHANGED <<u_addr, listener, optVars>>
EncodeWrite(q) ==
    /\ call[q].pc = "write"
    /\ \/ /\ ~Refused
          /\ net' = Append(net, call[q].data)
          /\ call' = [call EXCEPT ![q] = [Sent(call[q]) EXCEPT !.pc = "put"]]
       \/ /\ UNCHANGED net
          /\ call' = [call EXCEPT ![q] = [Failed(call[q]) EXCEPT !.pc = "put"]]
    /\ UNCHANGED <<u_closed, sock, u_closeRet, expVars, ncalls>>
    /\ UNCHANGED <<metaVars, startVars>>
    /\ UNCHANGED <<u_addr, listener, optVars>>

\* Encode: the deferred u.connPool.Put(conn), and the return.
EncodePut_Retries(q) ==
    /\ call[q].pc = "put"
    /\ IF call[q].err = ErrWrite /\ call[q].tries < 2
       THEN /\ call' = [call EXCEPT ![q].pc = "write"]
            /\ UNCHANGED <<sock, e_mu, eventsExportedTotal>>
       ELSE /\ sock' = [sock EXCEPT ![call[q].conn] = "pooled"]
            /\ Return(q, [call[q] EXCEPT !.conn = 0])
    /\ UNCHANGED <<u_closed, net, u_closeRet, e_closed, rateLimiter, tokens, limiterDrops,
                   rateLimitDropped, e_closeRet, encoderCloses, ncalls>>
    /\ UNCHANGED <<metaVars, startVars>>
    /\ UNCHANGED <<u_addr, listener, optVars>>
EncodePut(q) ==
    /\ call[q].pc = "put"
    /\ sock' = [sock EXCEPT ![call[q].conn] = "pooled"]
    /\ Return(q, [call[q] EXCEPT !.conn = 0])
    /\ UNCHANGED <<u_closed, net, u_closeRet, e_closed, rateLimiter, tokens, limiterDrops,
                   rateLimitDropped, e_closeRet, encoderCloses, ncalls>>
    /\ UNCHANGED <<metaVars, startVars>>
    /\ UNCHANGED <<u_addr, listener, optVars>>

\* UDPEncoder.Close(): atomic.StoreInt32(&u.closed, 1); return nil.
EncoderStore_Toggle ==
    /\ u_closed' = 1 - u_closed
    /\ u_closeRet' = TRUE
EncoderStore ==
    /\ u_closed' = 1
    /\ u_closeRet' = TRUE

\* Close(), called on the encoder directly.
EncoderClose_Waits(q) ==
    /\ CanCall(q)
    /\ \A r \in Procs : call[r].pc \in {"idle", "ret", "enc", "close"}
    /\ ncalls' = ncalls + 1
    /\ EncoderStore
    /\ call' = [call EXCEPT ![q] = [Frame("EncoderClose", "ret") EXCEPT !.err = Nil]]
    /\ UNCHANGED <<sock, net, expVars>>
    /\ UNCHANGED <<metaVars, startVars>>
    /\ UNCHANGED <<u_addr, listener, optVars>>
EncoderClose(q) ==
    /\ CanCall(q)
    /\ ncalls' = ncalls + 1
    /\ EncoderStore
    /\ call' = [call EXCEPT ![q] = [Frame("EncoderClose", "ret") EXCEPT !.err = Nil]]
    /\ UNCHANGED <<sock, net, expVars>>
    /\ UNCHANGED <<metaVars, startVars>>
    /\ UNCHANGED <<u_addr, listener, optVars>>

\* Write(p), called on the encoder: the closed check and the truncation.
Write(q, p) ==
    /\ CanCall(q)
    /\ ncalls' = ncalls + 1
    /\ IF IsClosed
       THEN Return(q, [Frame("Write", "enc") EXCEPT !.p = p, !.n = 0, !.err = ErrEncoderClosed])
       ELSE /\ call' = [call EXCEPT ![q] =
                   [Frame("Write", "wget") EXCEPT !.p = p, !.open = TRUE,
                                                  !.data = WriteTruncate(p)]]
            /\ UNCHANGED <<e_mu, eventsExportedTotal>>
    /\ UNCHANGED <<encVars, e_closed, rateLimiter, tokens, limiterDrops,
                   rateLimitDropped, e_closeRet, encoderCloses>>
    /\ UNCHANGED <<metaVars, startVars>>
    /\ UNCHANGED <<u_addr, listener, optVars>>

\* Write: connObj := u.connPool.Get().
WriteGet(q) ==
    /\ call[q].pc = "wget"
    /\ PoolGet(q, "wwrite", "wfallback")
    /\ UNCHANGED <<u_closed, net, u_closeRet, expVars, ncalls>>
    /\ UNCHANGED <<metaVars, startVars>>
    /\ UNCHANGED <<u_addr, listener, optVars>>

\* Write, connObj == nil: createUnboundUDPSocket, WriteToUDP, conn.Close.
WriteFallback(q) ==
    /\ call[q].pc = "wfallback"
    /\ \/ /\ Return(q, [call[q] EXCEPT !.err = ErrSocket, !.n = 0])
          /\ UNCHANGED <<sock, net>>
       \/ /\ Fresh # 0
          /\ sock' = [sock EXCEPT ![Fresh] = "closed"]
          /\ \/ /\ ~Refused
                /\ net' = Append(net, call[q].data)
                /\ Return(q, Sent(call[q]))
             \/ /\ UNCHANGED net
                /\ Return(q, Failed(call[q]))
    /\ UNCHANGED <<u_closed, u_closeRet, e_closed, rateLimiter, tokens, limiterDrops,
                   rateLimitDropped, e_closeRet, encoderCloses, ncalls>>
    /\ UNCHANGED <<metaVars, startVars>>
    /\ UNCHANGED <<u_addr, listener, optVars>>

\* Write: return conn.WriteToUDP(p, u.addr) on the pooled socket.
WriteSend(q) ==
    /\ call[q].pc = "wwrite"
    /\ \/ /\ ~Refused
          /\ net' = Append(net, call[q].data)
          /\ call' = [call EXCEPT ![q] = [Sent(call[q]) EXCEPT !.pc = "wput"]]
       \/ /\ UNCHANGED net
          /\ call' = [call EXCEPT ![q] = [Failed(call[q]) EXCEPT !.pc = "wput"]]
    /\ UNCHANGED <<u_closed, sock, u_closeRet, expVars, ncalls>>
    /\ UNCHANGED <<metaVars, startVars>>
    /\ UNCHANGED <<u_addr, listener, optVars>>

\* Write: the deferred u.connPool.Put(conn), and the return.
WritePut(q) ==
    /\ call[q].pc = "wput"
    /\ sock' = [sock EXCEPT ![call[q].conn] = "pooled"]
    /\ Return(q, [call[q] EXCEPT !.conn = 0])
    /\ UNCHANGED <<u_closed, net, u_closeRet, e_closed, rateLimiter, tokens, limiterDrops,
                   rateLimitDropped, e_closeRet, encoderCloses, ncalls>>
    /\ UNCHANGED <<metaVars, startVars>>
    /\ UNCHANGED <<u_addr, listener, optVars>>

\* --------------------------------------------------------------- UDPExporter
\* rateLimiter.Allow(): a token is there to take.
Allow == tokens > 0

\* What Send does under the mutex before it encodes: the closed check comes
\* first, then the rate limiter when one is configured.
SendGate_FailedIsClosed ==
    IF e_closed \/ SendFailed THEN "closed"
    ELSE IF rateLimiter /\ ~Allow THEN "drop"
    ELSE "encode"
SendGate_LimiterFirst ==
    IF rateLimiter /\ ~Allow THEN "drop"
    ELSE IF e_closed THEN "closed"
    ELSE "encode"
SendGate_EncoderFirst ==
    IF e_closed \/ IsClosed THEN "closed"
    ELSE IF rateLimiter /\ ~Allow THEN "drop"
    ELSE "encode"
SendGate ==
    IF e_closed THEN "closed"
    ELSE IF rateLimiter /\ ~Allow THEN "drop"
    ELSE "encode"

\* Send, Allow() rejected: rateLimiter.Drop(); rateLimitDropped.Inc(); return nil.
SendDrop_Uncounted(q, event) ==
    /\ limiterDrops' = limiterDrops + 1
    /\ UNCHANGED rateLimitDropped
    /\ call' = [call EXCEPT ![q] =
           [Frame("Send", "ret") EXCEPT !.v = event, !.err = Nil,
                !.allow = "rejected", !.drop = 1]]
SendDrop(q, event) ==
    /\ limiterDrops' = limiterDrops + 1
    /\ rateLimitDropped' = rateLimitDropped + 1
    /\ call' = [call EXCEPT ![q] =
           [Frame("Send", "ret") EXCEPT !.v = event, !.err = Nil,
                !.allow = "rejected", !.drop = 1, !.dDrop = 1]]

\* Send(event): Lock, the closed check and the rate limiter; an accepted event
\* goes on to e.encoder.Encode with the mutex held.
Send(q, event) ==
    /\ CanCall(q)
    /\ e_mu = 0
    /\ ncalls' = ncalls + 1
    /\ CASE SendGate = "closed" ->
            /\ call' = [call EXCEPT ![q] =
                   [Frame("Send", "ret") EXCEPT !.v = event, !.err = ErrExporterClosed]]
            /\ UNCHANGED <<e_mu, tokens, limiterDrops, rateLimitDropped>>
         [] SendGate = "drop" ->
            /\ SendDrop(q, event)
            /\ UNCHANGED <<e_mu, tokens>>
         [] SendGate = "encode" ->
            /\ e_mu' = q
            /\ tokens' = IF rateLimiter THEN tokens - 1 ELSE tokens
            /\ call' = [call EXCEPT ![q] =
                   [Frame("Send", "enc") EXCEPT !.v = event,
                        !.allow = IF rateLimiter THEN "granted" ELSE "none"]]
            /\ UNCHANGED <<limiterDrops, rateLimitDropped>>
    /\ UNCHANGED <<encVars, e_closed, rateLimiter, eventsExportedTotal, e_closeRet,
                   encoderCloses>>
    /\ UNCHANGED <<metaVars, startVars>>
    /\ UNCHANGED <<u_addr, listener, optVars>>

\* Send: e.encoder.Encode(event) starts.
SendEncode(q) ==
    /\ call[q].op = "Send"
    /\ call[q].pc = "enc"
    /\ EncodeEnter(q, call[q])
    /\ UNCHANGED <<encVars, e_closed, rateLimiter, tokens, limiterDrops,
                   rateLimitDropped, e_closeRet, encoderCloses, ncalls>>
    /\ UNCHANGED <<metaVars, startVars>>
    /\ UNCHANGED <<u_addr, listener, optVars>>

\* Close: if e.closed { return nil }.
AlreadyClosed_Unchecked == FALSE
AlreadyClosed == e_closed

\* Close(): Lock; a closed exporter returns nil; else e.closed = true.
Close_NoLock(q) ==
    /\ CanCall(q)
    /\ ncalls' = ncalls + 1
    /\ IF AlreadyClosed
       THEN /\ call' = [call EXCEPT ![q] = [Frame("Close", "ret") EXCEPT !.err = Nil]]
            /\ e_closeRet' = TRUE
            /\ UNCHANGED <<e_closed, e_mu>>
       ELSE /\ e_closed' = TRUE
            /\ call' = [call EXCEPT ![q] = Frame("Close", "close")]
            /\ UNCHANGED <<e_closeRet, e_mu>>
    /\ UNCHANGED <<encVars, rateLimiter, tokens, limiterDrops, rateLimitDropped,
                   eventsExportedTotal, encoderCloses>>
    /\ UNCHANGED <<metaVars, startVars>>
    /\ UNCHANGED <<u_addr, listener, optVars>>
Close(q) ==
    /\ CanCall(q)
    /\ e_mu = 0
    /\ ncalls' = ncalls + 1
    /\ IF AlreadyClosed
       THEN /\ call' = [call EXCEPT ![q] = [Frame("Close", "ret") EXCEPT !.err = Nil]]
            /\ e_closeRet' = TRUE
            /\ UNCHANGED <<e_closed, e_mu>>
       ELSE /\ e_closed' = TRUE
            /\ e_mu' = q
            /\ call' = [call EXCEPT ![q] = Frame("Close", "close")]
            /\ UNCHANGED e_closeRet
    /\ UNCHANGED <<encVars, rateLimiter, tokens, limiterDrops, rateLimitDropped,
                   eventsExportedTotal, encoderCloses>>
    /\ UNCHANGED <<metaVars, startVars>>
    /\ UNCHANGED <<u_addr, listener, optVars>>

\* Close: return e.encoder.Close(), and the deferred Unlock.
CloseEncoder_Forgets(q) ==
    /\ call[q].pc = "close"
    /\ encoderCloses' = encoderCloses + 1
    /\ e_mu' = 0
    /\ e_closeRet' = TRUE
    /\ call' = [call EXCEPT ![q].pc = "ret", ![q].err = Nil]
    /\ UNCHANGED <<u_closed, u_closeRet, sock, net, e_closed, rateLimiter, tokens,
                   limiterDrops, rateLimitDropped, eventsExportedTotal, ncalls>>
    /\ UNCHANGED <<metaVars, startVars>>
    /\ UNCHANGED <<u_addr, listener, optVars>>
CloseEncoder(q) ==
    /\ call[q].pc = "close"
    /\ EncoderStore
    /\ encoderCloses' = encoderCloses + 1
    /\ e_mu' = 0
    /\ e_closeRet' = TRUE
    /\ call' = [call EXCEPT ![q].pc = "ret", ![q].err = Nil]
    /\ UNCHANGED <<sock, net, e_closed, rateLimiter, tokens, limiterDrops,
                   rateLimitDropped, eventsExportedTotal, ncalls>>
    /\ UNCHANGED <<metaVars, startVars>>
    /\ UNCHANGED <<u_addr, listener, optVars>>

\* SendMetadataEvent: NewMetadataEvent, ToGetEventsResponse, e.encoder.Encode.
SendMetadataEvent_Gated(q) ==
    /\ CanCall(q)
    /\ e_mu = 0
    /\ SendGate = "encode"
    /\ ncalls' = ncalls + 1
    /\ tokens' = IF rateLimiter THEN tokens - 1 ELSE tokens
    /\ EncodeEnter(q, [Frame("SendMetadataEvent", "enc") EXCEPT !.v = MetadataEvent])
    /\ UNCHANGED <<encVars, e_closed, rateLimiter, limiterDrops,
                   rateLimitDropped, e_closeRet, encoderCloses>>
    /\ UNCHANGED <<metaVars, startVars>>
    /\ UNCHANGED <<u_addr, listener, optVars>>
SendMetadataEvent(q) ==
    /\ CanCall(q)
    /\ ncalls' = ncalls + 1
    /\ EncodeEnter(q, [Frame("SendMetadataEvent", "enc") EXCEPT !.v = MetadataEvent])
    /\ UNCHANGED <<encVars, e_closed, rateLimiter, tokens, limiterDrops,
                   rateLimitDropped, e_closeRet, encoderCloses>>
    /\ UNCHANGED <<metaVars, startVars>>
    /\ UNCHANGED <<u_addr, listener, optVars>>

\* The rate limiter's interval passes: a token comes back.
Refill ==
    /\ rateLimiter
    /\ tokens < Burst
    /\ tokens' = tokens + 1
    /\ UNCHANGED <<encVars, e_closed, e_mu, rateLimiter, limiterDrops, rateLimitDropped,
                   eventsExportedTotal, call, ncalls, e_closeRet, encoderCloses>>
    /\ UNCHANGED <<metaVars, startVars>>
    /\ UNCHANGED <<u_addr, listener, optVars>>

Next ==
    \/ \E q \in Procs : \E v \in Values : Encode(q, v)
    \/ \E q \in Procs : EncodeGet(q)
    \/ \E q \in Procs : EncodeFallback(q)
    \/ \E q \in Procs : EncodeWrite(q)
    \/ \E q \in Procs : EncodePut(q)
    \/ \E q \in Procs : EncoderClose(q)
    \/ \E q \in Procs : \E p \in Buffers : Write(q, p)
    \/ \E q \in Procs : WriteGet(q)
    \/ \E q \in Procs : WriteFallback(q)
    \/ \E q \in Procs : WriteSend(q)
    \/ \E q \in Procs : WritePut(q)
    \/ \E q \in Procs : \E event \in GetEventsResponses : Send(q, event)
    \/ \E q \in Procs : SendEncode(q)
    \/ \E q \in Procs : Close(q)
    \/ \E q \in Procs : CloseEncoder(q)
    \/ \E q \in Procs : SendMetadataEvent(q)
    \/ Refill

Spec == Init /\ [][Next]_vars

\* ------------------------------------- UDPExporter, the metadata-caching revision
\* The exporter state the metadata path leaves alone, but for e.mu and the
\* export counter that Return sets.
expRest == <<e_closed, rateLimiter, tokens, limiterDrops, rateLimitDropped, e_closeRet,
             encoderCloses>>

\* e.encoder.WriteRaw(bytes) by the call with frame f: the encoder's raw write,
\* Write without the byte count: the closed check and the size bound, then the
\* socket steps of Write.
WriteRaw(q, f, bytes) ==
    IF IsClosed THEN Return(q, [f EXCEPT !.err = ErrEncoderClosed])
    ELSE /\ call' = [call EXCEPT ![q] =
                [f EXCEPT !.pc = "wget", !.open = TRUE, !.data = WriteTruncate(bytes)]]
         /\ UNCHANGED <<e_mu, eventsExportedTotal>>

\* SendMetadataEvent(udpDestination, udpBufferSize) starts and calls
\* initCachedMetadata.
CachedSendMetadataEvent(q, a) ==
    /\ CanCall(q)
    /\ ncalls' = ncalls + 1
    /\ call' = [call EXCEPT ![q] =
           [Frame("CachedSendMetadataEvent", "once") EXCEPT
                !.a = a, !.during = (metadataOnce = "running"), !.was = cachedMetadata,
                !.aftOk = (okComputations > 0)]]
    /\ UNCHANGED <<encVars, expVars, metaVars, startVars>>
    /\ UNCHANGED <<u_addr, listener, optVars>>

\* initCachedMetadata: e.metadataOnce.Do(func).  The first caller runs func;
\* a caller that finds it running waits for it to return; later callers pass.
MetadataOnceDo_NoWait(q) ==
    /\ call[q].pc = "once"
    /\ IF metadataOnce = "new"
       THEN /\ metadataOnce' = "running"
            /\ onceRuns' = onceRuns + 1
            /\ call' = [call EXCEPT ![q].ran = TRUE, ![q].k = "once", ![q].pc = "host"]
       ELSE /\ call' = [call EXCEPT ![q].pc = "read"]
            /\ UNCHANGED <<metadataOnce, onceRuns>>
    /\ UNCHANGED <<encVars, expVars, cachedMetadata, hostnameOnce, cachedHostname,
                   computations, okComputations, hostnameCalls, hostnameErr, startVars,
                   ncalls>>
    /\ UNCHANGED <<u_addr, listener, optVars>>
MetadataOnceDo(q) ==
    /\ call[q].pc = "once"
    /\ metadataOnce # "running"
    /\ IF metadataOnce = "new"
       THEN /\ metadataOnce' = "running"
            /\ onceRuns' = onceRuns + 1
            /\ call' = [call EXCEPT ![q].ran = TRUE, ![q].k = "once", ![q].pc = "host"]
       ELSE /\ call' = [call EXCEPT ![q].pc = "read"]
            /\ UNCHANGED <<metadataOnce, onceRuns>>
    /\ UNCHANGED <<encVars, expVars, cachedMetadata, hostnameOnce, cachedHostname,
                   computations, okComputations, hostnameCalls, hostnameErr, startVars,
                   ncalls>>
    /\ UNCHANGED <<u_addr, listener, optVars>>

\* Where a call goes on once getCachedHostname() has returned.
AfterHostname(k) ==
    CASE k = "once" -> "ojson"
      [] k = "fallback" -> "fjson"
      [] OTHER -> "ret"

\* getCachedHostname: hostnameOnce.Do(func).  The first caller calls
\* os.Hostname(); a caller that finds it running waits; later callers return
\* cachedHostname.
HostnameOnceDo_RetriesUnknown(q) ==
    /\ call[q].pc = "host"
    /\ hostnameOnce # "running"
    /\ IF hostnameOnce = "new" \/ cachedHostname = Unknown
       THEN /\ hostnameOnce' = "running"
            /\ hostnameCalls' = hostnameCalls + 1
            /\ call' = [call EXCEPT ![q].pc = "hres"]
       ELSE /\ call' = [call EXCEPT ![q].host = cachedHostname,
                                    ![q].pc = AfterHostname(call[q].k)]
            /\ UNCHANGED <<hostnameOnce, hostnameCalls>>
    /\ UNCHANGED <<encVars, expVars, metadataOnce, cachedMetadata, cachedHostname,
                   computations, okComputations, onceRuns, hostnameErr, startVars, ncalls>>
    /\ UNCHANGED <<u_addr, listener, optVars>>
HostnameOnceDo(q) ==
    /\ call[q].pc = "host"
    /\ hostnameOnce # "running"
    /\ IF hostnameOnce = "new"
       THEN /\ hostnameOnce' = "running"
            /\ hostnameCalls' = hostnameCalls + 1
            /\ call' = [call EXCEPT ![q].pc = "hres"]
       ELSE /\ call' = [call EXCEPT ![q].host = cachedHostname,
                                    ![q].pc = AfterHostname(call[q].k)]
            /\ UNCHANGED <<hostnameOnce, hostnameCalls>>
    /\ UNCHANGED <<encVars, expVars, metadataOnce, cachedMetadata, cachedHostname,
                   computations, okComputations, onceRuns, hostnameErr, startVars, ncalls>>
    /\ UNCHANGED <<u_addr, listener, optVars>>

\* getCachedHostname: os.Hostname() returns; its hostname, or "unknown" when it
\* failed, is stored, and hostnameOnce is done.
HostnameResolved(q) ==
    /\ call[q].pc = "hres"
    /\ \E ok \in BOOLEAN :
          /\ cachedHostname' = IF ok THEN Hostname ELSE Unknown
          /\ hostnameErr' = (hostnameErr \/ ~ok)
    /\ hostnameOnce' = "done"
    /\ call' = [call EXCEPT ![q].host = cachedHostname',
                            ![q].pc = AfterHostname(call[q].k)]
    /\ UNCHANGED <<encVars, expVars, metadataOnce, cachedMetadata, computations,
                   okComputations, onceRuns, hostnameCalls, startVars, ncalls>>
    /\ UNCHANGED <<u_addr, listener, optVars>>

\* getCachedHostname(), called directly.
GetCachedHostname(q) ==
    /\ CanCall(q)
    /\ ncalls' = ncalls + 1
    /\ call' = [call EXCEPT ![q] =
           [Frame("getCachedHostname", "host") EXCEPT !.k = "direct"]]
    /\ UNCHANGED <<encVars, expVars, metaVars, startVars>>
    /\ UNCHANGED <<u_addr, listener, optVars>>

\* The function of metadataOnce: NewMetadataEvent and ToJSON; the JSON is
\* cached when ToJSON succeeded, and the Once is done either way.
MetadataOnceToJSON(q) ==
    /\ call[q].pc = "ojson"
    /\ computations' = computations + 1
    /\ \E ok \in BOOLEAN :
          /\ okComputations' = (IF ok THEN okComputations + 1 ELSE okComputations)
          /\ cachedMetadata' =
                (IF ok
                 THEN ToJSON(NewMetadataEvent(call[q].host, call[q].a, computations + 1))
                 ELSE cachedMetadata)
    /\ metadataOnce' = "done"
    /\ call' = [call EXCEPT ![q].comp = @ + 1, ![q].pc = "read"]
    /\ UNCHANGED <<encVars, expVars, hostnameOnce, cachedHostname, onceRuns,
                   hostnameCalls, hostnameErr, startVars, ncalls>>
    /\ UNCHANGED <<u_addr, listener, optVars>>

\* SendMetadataEvent: if e.cachedMetadata != nil, WriteRaw(e.cachedMetadata);
\* else the fallback builds its own snapshot.
ReadCachedMetadata_KeyedByArgs(q) ==
    /\ call[q].pc = "read"
    /\ IF \E h \in {Hostname, Unknown} : \E t \in 1..computations :
              cachedMetadata = ToJSON(NewMetadataEvent(h, call[q].a, t))
       THEN WriteRaw(q, call[q], cachedMetadata)
       ELSE /\ call' = [call EXCEPT ![q].miss = TRUE, ![q].k = "fallback",
                                    ![q].pc = "host"]
            /\ UNCHANGED <<e_mu, eventsExportedTotal>>
    /\ UNCHANGED <<encVars, expRest, metaVars, startVars, ncalls>>
    /\ UNCHANGED <<u_addr, listener, optVars>>
ReadCachedMetadata(q) ==
    /\ call[q].pc = "read"
    /\ IF cachedMetadata # <<>>
       THEN WriteRaw(q, call[q], cachedMetadata)
       ELSE /\ call' = [call EXCEPT ![q].miss = TRUE, ![q].k = "fallback",
                                    ![q].pc = "host"]
            /\ UNCHANGED <<e_mu, eventsExportedTotal>>
    /\ UNCHANGED <<encVars, expRest, metaVars, startVars, ncalls>>
    /\ UNCHANGED <<u_addr, listener, optVars>>

\* SendMetadataEvent, the fallback: NewMetadataEvent, ToJSON (its error is
\* returned), WriteRaw(jsonData).  Nothing is stored in e.cachedMetadata.
FallbackToJSON_Caches(q) ==
    /\ call[q].pc = "fjson"
    /\ computations' = computations + 1
    /\ LET f == [call[q] EXCEPT !.comp = @ + 1]
           jsonData == ToJSON(NewMetadataEvent(f.host, f.a, computations + 1)) IN
       \/ /\ Return(q, [f EXCEPT !.err = ErrToJSON])
          /\ UNCHANGED <<okComputations, cachedMetadata>>
       \/ /\ okComputations' = okComputations + 1
          /\ cachedMetadata' = jsonData
          /\ WriteRaw(q, f, jsonData)
    /\ UNCHANGED <<encVars, expRest, metadataOnce, hostnameOnce, cachedHostname,
                   onceRuns, hostnameCalls, hostnameErr, startVars, ncalls>>
    /\ UNCHANGED <<u_addr, listener, optVars>>
FallbackToJSON(q) ==
    /\ call[q].pc = "fjson"
    /\ computations' = computations + 1
    /\ LET f == [call[q] EXCEPT !.comp = @ + 1]
           jsonData == ToJSON(NewMetadataEvent(f.host, f.a, computations + 1)) IN
       \/ /\ Return(q, [f EXCEPT !.err = ErrToJSON])
          /\ UNCHANGED okComputations
       \/ /\ okComputations' = okComputations + 1
          /\ WriteRaw(q, f, jsonData)
    /\ UNCHANGED <<encVars, expRest, metadataOnce, cachedMetadata, hostnameOnce,
                   cachedHostname, onceRuns, hostnameCalls, hostnameErr, startVars, ncalls>>
    /\ UNCHANGED <<u_addr, listener, optVars>>

\* The exporter of the caching revision and its encoder: the metadata path
\* (after WriteRaw the socket steps are those of Write), getCachedHostname and
\* the encoder's Close.
NextCached ==
    \/ \E q \in Procs : \E a \in MetadataArgs : CachedSendMetadataEvent(q, a)
    \/ \E q \in Procs : MetadataOnceDo(q)
    \/ \E q \in Procs : HostnameOnceDo(q)
    \/ \E q \in Procs : HostnameResolved(q)
    \/ \E q \in Procs : GetCachedHostname(q)
    \/ \E q \in Procs : MetadataOnceToJSON(q)
    \/ \E q \in Procs : ReadCachedMetadata(q)
    \/ \E q \in Procs : FallbackToJSON(q)
    \/ \E q \in Procs : WriteGet(q)
    \/ \E q \in Procs : WriteFallback(q)
    \/ \E q \in Procs : WriteSend(q)
    \/ \E q \in Procs : WritePut(q)
    \/ \E q \in Procs : EncoderClose(q)

\* The metadata path does not consult the rate limiter: none is configured.
InitCached == Init /\ ~rateLimiter

SpecCached == InitCached /\ [][NextCached]_vars

\* ---------------------------------------------------- UDPExporter.Start
\* The goroutine that calls Start and then SendMetadataEvent, and the goroutine
\* Start spawns, in which the server delivers the events to Send.
MainProc   == 1
StreamProc == 2

\* Start: readyWG.Add(1); go func() { ... }(); then readyWG.Wait().
Start(q) ==
    /\ CanCall(q)
    /\ stream = "none"
    /\ ncalls' = ncalls + 1
    /\ readyWG' = readyWG + 1
    /\ stream' = "spawned"
    /\ call' = [call EXCEPT ![q] = Frame("Start", "wait")]
    /\ UNCHANGED <<encVars, expVars, metaVars, exporterStartErr>>
    /\ UNCHANGED <<u_addr, listener, optVars>>

\* e.server.GetEventsWG in the spawned goroutine signals readiness
\* (readyWG.Done()): its listener is registered and events flow, or the stream
\* failed to start and GetEventsWG is about to return the error.
GetEventsWG ==
    /\ stream = "spawned"
    /\ readyWG' = readyWG - 1
    /\ \E ok \in BOOLEAN : stream' = (IF ok THEN "ready" ELSE "failing")
    /\ UNCHANGED <<encVars, expVars, metaVars, exporterStartErr, call, ncalls>>
    /\ UNCHANGED <<u_addr, listener, optVars>>

\* The spawned goroutine: GetEventsWG has returned an error (the start
\* failure, or the end of a stream that was ready), and exporterStartErr is
\* assigned.
StartGoroutineErr ==
    /\ stream \in {"failing", "ready"}
    /\ stream = "ready" => call[StreamProc].pc \in {"idle", "ret"}
    /\ exporterStartErr' = ErrStart
    /\ stream' = (IF stream = "failing" THEN "failed" ELSE "ended")
    /\ UNCHANGED <<encVars, expVars, metaVars, readyWG, call, ncalls>>
    /\ UNCHANGED <<u_addr, listener, optVars>>

\* Start: readyWG.Wait() returns; return exporterStartErr.
StartReturn(q) ==
    /\ call[q].op = "Start"
    /\ call[q].pc = "wait"
    /\ readyWG = 0
    /\ call' = [call EXCEPT ![q].pc = "ret", ![q].err = exporterStartErr]
    /\ UNCHANGED <<encVars, expVars, metaVars, startVars, ncalls>>
    /\ UNCHANGED <<u_addr, listener, optVars>>

\* The server delivers an event of the ready stream: GetEventsWG calls Send.
StreamSend(event) ==
    /\ stream = "ready"
    /\ Send(StreamProc, event)

\* The caller of Start, after Start returned nil: SendMetadataEvent.
StartupMetadata ==
    /\ call[MainProc].op = "Start"
    /\ call[MainProc].pc = "ret"
    /\ call[MainProc].err = Nil
    /\ SendMetadataEvent(MainProc)

\* The startup sequence: Start, then SendMetadataEvent, with the stream's Sends.
NextStartup ==
    \/ Start(MainProc)
    \/ GetEventsWG
    \/ StartGoroutineErr
    \/ StartReturn(MainProc)
    \/ StartupMetadata
    \/ \E event \in GetEventsResponses : StreamSend(event)
    \/ \E q \in Procs : SendEncode(q)
    \/ \E q \in Procs : EncodeGet(q)
    \/ \E q \in Procs : EncodeFallback(q)
    \/ \E q \in Procs : EncodeWrite(q)
    \/ \E q \in Procs : EncodePut(q)
    \/ Refill

SpecStartup == Init /\ [][NextStartup]_vars

\* ------------------------------------------------- option: UDP minimal mode
\* applyUDPMinimalMode, on configuration c: its statements in their order.
applyUDPMinimalMode(c) ==
    LET c1 == IF c.UDPOutputEnabled /\ c.HealthServerAddress = DefaultHealthServerAddress
              THEN [c EXCEPT !.HealthServerAddress = ""] ELSE c
        c2 == IF c1.UDPOutputEnabled /\ c1.GopsAddr = DefaultGopsAddr
              THEN [c1 EXCEPT !.GopsAddr = ""] ELSE c1
        c3 == IF c2.UDPOutputEnabled /\ c2.MetricsServer # ""
              THEN [c2 EXCEPT !.MetricsServer = ""] ELSE c2
        c4 == IF c3.UDPOutputEnabled /\ c3.PprofAddr # ""
              THEN [c3 EXCEPT !.PprofAddr = ""] ELSE c3
        c5 == IF c4.UDPOutputEnabled /\ c4.EnableK8s
              THEN [c4 EXCEPT !.EnableK8s = FALSE] ELSE c4
        c6 == IF c5.UDPOutputEnabled /\ c5.EnablePolicyFilter
              THEN [c5 EXCEPT !.EnablePolicyFilter = FALSE,
                              !.EnablePolicyFilterCgroupMap = FALSE,
                              !.EnablePolicyFilterDebug = FALSE]
              ELSE c5
        c7 == IF c6.UDPOutputEnabled /\ (c6.EnablePodInfo \/ c6.EnableTracingPolicyCRD)
              THEN [c6 EXCEPT !.EnablePodInfo = FALSE, !.EnableTracingPolicyCRD = FALSE]
              ELSE c6
    IN  IF c7.UDPOutputEnabled /\ c7.EnableCRI THEN [c7 EXCEPT !.EnableCRI = FALSE] ELSE c7

\* applyUDPGRPCDisabling, on configuration c.
applyUDPGRPCDisabling_IgnoresFlag(c) ==
    IF c.UDPOutputEnabled THEN [c EXCEPT !.ServerAddress = ""] ELSE c
applyUDPGRPCDisabling(c) ==
    IF c.UDPOutputEnabled /\ ~c.GRPCEnabled THEN [c EXCEPT !.ServerAddress = ""] ELSE c

\* applyUDPMinimalMode() runs on option.Config.
ApplyUDPMinimalMode ==
    /\ Config' = applyUDPMinimalMode(Config)
    /\ applied' = applied \cup {"minimal"}
    /\ UNCHANGED <<encVars, expVars, call, ncalls, metaVars, startVars, u_addr, listener,
                   Initial>>

\* applyUDPGRPCDisabling() runs on option.Config.
ApplyUDPGRPCDisabling ==
    /\ Config' = applyUDPGRPCDisabling(Config)
    /\ applied' = applied \cup {"grpc"}
    /\ UNCHANGED <<encVars, expVars, call, ncalls, metaVars, startVars, u_addr, listener,
                   Initial>>

\* The flags have been read into option.Config: any configuration.
InitFlags ==
    /\ InitCore /\ ~rateLimiter
    /\ u_addr = DefaultAddr
    /\ listener = FALSE
    /\ Config \in Configs
    /\ Initial = Config
    /\ applied = {}

NextFlags ==
    \/ ApplyUDPMinimalMode
    \/ ApplyUDPGRPCDisabling

SpecFlags == InitFlags /\ [][NextFlags]_vars

\* ------------------------------------------------------- the pool's growth
\* Encode(v) of the metadata-sized event, called on the encoder directly, up
\* to MaxPoolCalls times in a behaviour.
PoolEncode(q) ==
    /\ call[q].pc \in {"idle", "ret"}
    /\ ncalls < MaxPoolCalls
    /\ ncalls' = ncalls + 1
    /\ EncodeEnter(q, [Frame("Encode", "enc") EXCEPT !.v = MetadataEvent])
    /\ UNCHANGED <<encVars, e_closed, rateLimiter, tokens, limiterDrops,
                   rateLimitDropped, e_closeRet, encoderCloses>>
    /\ UNCHANGED <<metaVars, startVars>>
    /\ UNCHANGED <<u_addr, listener, optVars>>

\* connPool is empty, and MaxPoolSockets sockets can be created.
InitPool ==
    /\ InitButPool /\ ~rateLimiter
    /\ sock = [s \in 1..MaxPoolSockets |-> "unborn"]
    /\ u_addr = DefaultAddr
    /\ listener = FALSE
    /\ Config = DefaultConfig
    /\ Initial = DefaultConfig
    /\ applied = {}

\* Encode after Encode on one encoder, by one goroutine.
PoolProcs == {1}

NextPool ==
    \/ \E q \in PoolProcs : PoolEncode(q)
    \/ \E q \in PoolProcs : EncodeGet(q)
    \/ \E q \in PoolProcs : EncodeFallback(q)
    \/ \E q \in PoolProcs : EncodeWrite(q)
    \/ \E q \in PoolProcs : EncodePut(q)

SpecPool == InitPool /\ [][NextPool]_vars

\* ------------------------------------------------------------ NewUDPEncoder
\* An encoder exists.
Built == u_addr # NoEncoder

\* NewUDPEncoder(address, port, bufferSize): the destination is resolved; when
\* that fails the error is returned with a nil encoder; else the encoder is
\* returned with addr set.  The frame keeps the arguments (a) and the addr of
\* the encoder returned (to).
NewUDPEncoder_Defaults(q, address, port) ==
    /\ CanCall(q)
    /\ ~Built
    /\ ncalls' = ncalls + 1
    /\ LET addr == ResolveUDPAddr(address, port)
           f == [Frame("NewUDPEncoder", "ret") EXCEPT
                     !.a = [address |-> address, port |-> port]] IN
       IF addr = NoAddr
       THEN /\ u_addr' = DefaultAddr
            /\ call' = [call EXCEPT ![q] = [f EXCEPT !.err = Nil, !.to = DefaultAddr]]
       ELSE /\ u_addr' = addr
            /\ call' = [call EXCEPT ![q] = [f EXCEPT !.err = Nil, !.to = addr]]
    /\ UNCHANGED <<encVars, expVars, metaVars, startVars, listener, optVars>>
NewUDPEncoder(q, address, port) ==
    /\ CanCall(q)
    /\ ~Built
    /\ ncalls' = ncalls + 1
    /\ LET addr == ResolveUDPAddr(address, port)
           f == [Frame("NewUDPEncoder", "ret") EXCEPT
                     !.a = [address |-> address, port |-> port]] IN
       IF addr = NoAddr
       THEN /\ u_addr' = NoEncoder
            /\ call' = [call EXCEPT ![q] = [f EXCEPT !.err = ErrResolve, !.to = NoEncoder]]
       ELSE /\ u_addr' = addr
            /\ call' = [call EXCEPT ![q] = [f EXCEPT !.err = Nil, !.to = addr]]
    /\ UNCHANGED <<encVars, expVars, metaVars, startVars, listener, optVars>>

\* GetRemoteAddr(): return u.addr.String().
GetRemoteAddr(q) ==
    /\ CanCall(q)
    /\ Built
    /\ ncalls' = ncalls + 1
    /\ call' = [call EXCEPT ![q] =
           [Frame("GetRemoteAddr", "ret") EXCEPT !.str = AddrString(u_addr)]]
    /\ UNCHANGED <<encVars, expVars, metaVars, startVars, u_addr, listener, optVars>>

\* Nothing is constructed yet.
InitNew ==
    /\ InitCore /\ ~rateLimiter
    /\ u_addr = NoEncoder
    /\ listener = FALSE
    /\ Config = DefaultConfig
    /\ Initial = DefaultConfig
    /\ applied = {}

\* NewUDPEncoder, and on the encoder it returned Encode, Write, Close and
\* GetRemoteAddr.
NextNew ==
    \/ \E q \in Procs : \E address \in Addresses : \E port \in Ports :
          NewUDPEncoder(q, address, port)
    \/ \E q \in Procs : GetRemoteAddr(q)
    \/ \E q \in Procs : \E v \in Values : Built /\ Encode(q, v)
    \/ \E q \in Procs : EncodeGet(q)
    \/ \E q \in Procs : EncodeFallback(q)
    \/ \E q \in Procs : EncodeWrite(q)
    \/ \E q \in Procs : EncodePut(q)
    \/ \E q \in Procs : \E p \in Buffers : Built /\ Write(q, p)
    \/ \E q \in Procs : WriteGet(q)
    \/ \E q \in Procs : WriteFallback(q)
    \/ \E q \in Procs : WriteSend(q)
    \/ \E q \in Procs : WritePut(q)
    \/ \E q \in Procs : Built /\ EncoderClose(q)

SpecNew == InitNew /\ [][NextNew]_vars

\* ------------------------------------------------------ concurrent producers
\* The goroutines call nothing but Send, on an exporter that is not closed.
NextProducers ==
    \/ \E q \in Procs : \E event \in GetEventsResponses : Send(q, event)
    \/ \E q \in Procs : SendEncode(q)
    \/ \E q \in Procs : EncodeGet(q)
    \/ \E q \in Procs : EncodeFallback(q)
    \/ \E q \in Procs : EncodeWrite(q)
    \/ \E q \in Procs : EncodePut(q)
    \/ Refill

SpecProducers == Init /\ [][NextProducers]_vars

\* ------------------------------------------------- the destination's listener
\* Somebody binds a UDP socket at the destination (as the tests' net.ListenUDP
\* does), or closes it.  The encoder takes no part in either.
ListenerBind ==
    /\ ~listener
    /\ listener' = TRUE
    /\ UNCHANGED <<encVars, expVars, call, ncalls, metaVars, startVars, u_addr, optVars>>

ListenerClose ==
    /\ listener
    /\ listener' = FALSE
    /\ UNCHANGED <<encVars, expVars, call, ncalls, metaVars, startVars, u_addr, optVars>>

\* Encode, Write and Send while the listener comes and goes.
NextListener ==
    \/ \E q \in Procs : \E v \in Values : Encode(q, v)
    \/ \E q \in Procs : EncodeGet(q)
    \/ \E q \in Procs : EncodeFallback(q)
    \/ \E q \in Procs : EncodeWrite(q)
    \/ \E q \in Procs : EncodePut(q)
    \/ \E q \in Procs : \E p \in Buffers : Write(q, p)
    \/ \E q \in Procs : WriteGet(q)
    \/ \E q \in Procs : WriteFallback(q)
    \/ \E q \in Procs : WriteSend(q)
    \/ \E q \in Procs : WritePut(q)
    \/ \E q \in Procs : \E event \in GetEventsResponses : Send(q, event)
    \/ \E q \in Procs : SendEncode(q)
    \/ ListenerBind
    \/ ListenerClose

SpecListener == InitCached /\ [][NextListener]_vars

\* ================================================================== claims
Returned(f)  == f.pc = "ret"
SocketErrors == {ErrSocket, ErrWrite}
\* f is a call that runs Encode (directly, or from Send / SendMetadataEvent).
EncodeCalls  == {"Encode", "Send", "SendMetadataEvent"}
\* The call took no socket and attempted no write.
Untouched(f) == f.gets = 0 /\ f.conn = 0 /\ f.tries = 0 /\ f.xmit = 0

\* C1: once UDPEncoder.Close() has returned, an Encode or Write that starts
\* afterwards returns "UDP encoder is closed", takes no socket from the pool and
\* transmits nothing; Write returns n = 0.  (Encode started by
\* SendMetadataEvent is such an Encode too.)
C1_ClosedEncoderRejects ==
    \A q \in Procs :
        LET f == call[q] IN
        (f.op \in {"Encode", "Write", "SendMetadataEvent"} /\ f.aftU) =>
            /\ Returned(f)
            /\ f.err = ErrEncoderClosed
            /\ Untouched(f)
            /\ f.op = "Write" => f.n = 0

C1_Witness ==
    \E q, r \in Procs :
        /\ call[q].op = "Encode" /\ call[q].aftU /\ call[q].err = ErrEncoderClosed
        /\ call[r].op = "Write" /\ call[r].aftU /\ call[r].err = ErrEncoderClosed
        /\ call[r].p # <<>>

\* C2: once UDPExporter.Close() has returned, a later Send returns "UDP exporter
\* is closed" before anything else: Allow() and Drop() are not called, no
\* socket is taken, nothing is transmitted, no metric changes.
C2_ClosedExporterRejectsFirst ==
    \A q \in Procs :
        LET f == call[q] IN
        (f.op = "Send" /\ f.aftE) =>
            /\ Returned(f)
            /\ f.err = ErrExporterClosed
            /\ f.allow = "none" /\ f.drop = 0
            /\ Untouched(f)
            /\ f.dExp = 0 /\ f.dDrop = 0

\* A Send after Close on an exporter whose limiter has no token left.
C2_Witness ==
    \E q \in Procs :
        /\ call[q].op = "Send" /\ call[q].aftE /\ Returned(call[q])
        /\ rateLimiter /\ tokens = 0

\* C3: every UDPExporter.Close() returns nil, the exporter calls
\* UDPEncoder.Close() exactly once, in its first Close, and UDPEncoder.Close()
\* returns nil whenever it is called.
C3_CloseIdempotent ==
    /\ \A q \in Procs :
          (call[q].op \in {"Close", "EncoderClose"} /\ Returned(call[q])) => call[q].err = Nil
    /\ encoderCloses <= 1
    /\ e_closeRet => encoderCloses = 1
    /\ e_closed => (encoderCloses = 1 \/ \E q \in Procs : call[q].op = "Close" /\ call[q].pc = "close")

\* Two Close calls have returned (the later behind the mutex of the first).
C3_Witness ==
    /\ \A q \in Procs : call[q].op = "Close" /\ Returned(call[q])
    /\ encoderCloses = 1

\* C4: closed is terminal on both layers: no step takes e.closed from true to
\* false or u.closed from 1 to 0.
C4_ClosedIsMonotonic ==
    [][(e_closed => e_closed') /\ (u_closed = 1 => u_closed' = 1)]_vars

\* Both layers closed, and calls of both layers were made after that.
C4_Witness ==
    /\ e_closed /\ u_closed = 1
    /\ \E q, r \in Procs :
          /\ call[q].op = "EncoderClose" /\ call[q].aftU
          /\ call[r].op = "Send" /\ call[r].aftE

\* C5: a Send whose Allow() is rejected returns nil, calls Drop() once, counts
\* one drop, takes no socket, transmits nothing and counts no export.  So when
\* two Sends are all that happened and the limiter granted one of them, one
\* drop is recorded and the rejected Send returned nil; the granted Send
\* returned nil and put exactly one datagram on the network, unless its own
\* Encode failed (marshal or socket error), which it then returned with no
\* datagram sent.
C5_RateLimitedSendIsSilentDrop ==
    /\ \A q \in Procs :
          LET f == call[q] IN
          (f.op = "Send" /\ f.allow = "rejected") =>
              /\ Returned(f) /\ f.err = Nil
              /\ f.drop = 1 /\ f.dDrop = 1 /\ f.dExp = 0
              /\ Untouched(f)
    /\ \A q, r \in Procs :
          LET f == call[q]
              g == call[r] IN
          ( /\ ncalls = 2
            /\ f.op = "Send" /\ Returned(f) /\ f.allow = "granted"
            /\ g.op = "Send" /\ Returned(g) /\ g.allow = "rejected" ) =>
              /\ rateLimitDropped = 1 /\ limiterDrops = 1
              /\ g.err = Nil
              /\ \/ f.err = Nil /\ Len(net) = 1 /\ eventsExportedTotal = 1
                 \/ f.err \in SocketErrors \cup {ErrMarshal} /\ Len(net) = 0
                       /\ eventsExportedTotal = 0

\* Two Sends, back to back, on a limiter holding one token: one datagram, one
\* drop, no error.
C5_Witness ==
    \E q, r \in Procs :
        /\ ncalls = 2 /\ Len(net) = 1 /\ rateLimitDropped = 1
        /\ call[q].op = "Send" /\ call[q].allow = "granted" /\ call[q].err = Nil
        /\ call[r].op = "Send" /\ call[r].allow = "rejected" /\ call[r].err = Nil

\* f ran Encode on an open encoder with an event that marshals: f.data is the
\* datagram Encode built for it.
Encoded(f)  == f.op \in EncodeCalls /\ f.open /\ f.v.shape = "GetEventsResponse"
               /\ f.v.marshal = "ok"
\* f ran Write on an open encoder: f.data is the datagram Write built.
Written(f)  == f.op = "Write" /\ f.open
OnWire(d)   == \E i \in 1..Len(net) : net[i] = d
\* The call stands or falls with its socket: it attempts at most one write; a
\* datagram it transmitted is f.data; once returned, it returned nil with the
\* datagram sent, or a socket error with nothing sent.
OneShot(f) ==
    /\ f.tries <= 1 /\ f.xmit <= f.tries
    /\ f.xmit = 1 => OnWire(f.data)
    /\ Returned(f) => \/ f.err = Nil /\ f.xmit = 1
                      \/ f.err \in SocketErrors /\ f.xmit = 0

C7_SmallEventSentVerbatim ==
    \A q \in Procs :
        LET f == call[q]
            json == Marshal(f.v) IN
        (Encoded(f) /\ BLen(json) + 1 <= MaxUDPSize) =>
            /\ BLen(f.data) = BLen(json) + 1
            /\ BTake(f.data, BLen(json)) = json
            /\ EndsWithNL(f.data)
            /\ OneShot(f)

\* An event that fits exactly (JSON plus newline = MaxUDPSize) was sent.
C7_Witness ==
    \E q \in Procs :
        /\ Encoded(call[q]) /\ BLen(Marshal(call[q].v)) + 1 = MaxUDPSize
        /\ Returned(call[q]) /\ call[q].err = Nil /\ call[q].xmit = 1
        /\ OnWire(BAppend(Marshal(call[q].v), NL))

C9_OneBoundedDatagram ==
    /\ \A q \in Procs :
          LET f == call[q] IN
          /\ (Written(f) \/ Encoded(f)) => BLen(f.data) <= MaxUDPSize
          /\ f.tries <= 1 /\ f.xmit <= 1
    /\ \A i \in 1..Len(net) : BLen(net[i]) <= MaxUDPSize
    /\ Len(net) <= ncalls

\* Oversized payloads of Write and of Encode are on the wire, one datagram each.
C9_Witness ==
    \E q, r \in Procs :
        /\ Written(call[q]) /\ BLen(call[q].p) > MaxUDPSize /\ call[q].xmit = 1
        /\ Encoded(call[r]) /\ BLen(Marshal(call[r].v)) + 1 > MaxUDPSize /\ call[r].xmit = 1
        /\ Len(net) = 2

\* C10: for a buffer p of at most MaxUDPSize bytes, Write on an open encoder
\* sends one datagram equal to p and returns n = len(p) and no error; it can
\* fail only with its socket, and then sends nothing and returns n = 0.
C10_WriteSendsBufferVerbatim ==
    \A q \in Procs :
        LET f == call[q] IN
        (Written(f) /\ BLen(f.p) <= MaxUDPSize) =>
            /\ f.data = f.p
            /\ OneShot(f)
            /\ Returned(f) => f.n = (IF f.err = Nil THEN BLen(f.p) ELSE 0)

\* A buffer of exactly MaxUDPSize bytes was written whole.
C10_Witness ==
    \E q \in Procs :
        /\ Written(call[q]) /\ BLen(call[q].p) = MaxUDPSize
        /\ Returned(call[q]) /\ call[q].err = Nil /\ call[q].n = MaxUDPSize
        /\ OnWire(call[q].p)

\* C11: a Send that returns an error (a marshal, socket or encoder error of its
\* Encode) leaves the exporter open: only a Close call sets e.closed, and only a
\* closed exporter rejects a Send as closed.  So a Send started after a failed
\* one, with an event that marshals, the limiter willing and the encoder open,
\* is accepted and encoded like any other: it returns nil with its datagram
\* sent, and can fail only with its own socket.
C11_SendFailureKeepsExporterOpen ==
    /\ e_closed => (encoderCloses = 1
                      \/ \E q \in Procs : call[q].op = "Close" /\ call[q].pc = "close")
    /\ \A q \in Procs :
          LET f == call[q] IN
          /\ (f.op = "Send" /\ f.err = ErrExporterClosed) => e_closed
          /\ ( /\ f.op = "Send" /\ f.aftErr /\ Returned(f)
               /\ f.v.marshal = "ok" /\ f.allow # "rejected" /\ u_closed = 0 ) =>
                 /\ f.open /\ Encoded(f)
                 /\ OneShot(f)

\* A Send failed with its socket write, the exporter stayed open, and the next
\* Send put its datagram on the network.
C11_Witness ==
    \E q, r \in Procs :
        /\ call[q].op = "Send" /\ Returned(call[q]) /\ call[q].err = ErrWrite
        /\ call[r].op = "Send" /\ Returned(call[r]) /\ call[r].aftErr
        /\ call[r].err = Nil /\ call[r].xmit = 1 /\ OnWire(call[r].data)
        /\ ~e_closed

\* C12: no call attempts a second socket write: within a call the one attempt
\* stays the only one; a failed attempt transmits nothing, its error stays the
\* call's error and is what the call returns; and the network gets a datagram
\* only as the first attempt of some call, never from a later step.
C12_NoRetry ==
    [][ /\ \A q \in Procs :
             LET f == call[q]
                 g == call'[q] IN
             /\ g.tries <= 1
             /\ (f.pc \notin {"idle", "ret"} /\ f.tries = 1) =>
                    /\ g.tries = 1 /\ g.xmit = f.xmit
                    /\ f.xmit = 0 => g.err = f.err /\ f.err = ErrWrite
             /\ (g.pc = "ret" /\ g.tries = 1 /\ g.xmit = 0) => g.err = ErrWrite
        /\ net' # net =>
             \E q \in Procs :
                 /\ call[q].tries = 0 /\ call'[q].tries = 1 /\ call'[q].xmit = 1
                 /\ net' = Append(net, call[q].data)
      ]_vars

\* An Encode of a Send and a Write both failed at their one write on a pooled
\* socket and returned the error; nothing was transmitted.
C12_Witness ==
    \E q, r \in Procs :
        /\ call[q].op = "Send" /\ call[r].op = "Write"
        /\ \A x \in {q, r} :
              /\ Returned(call[x]) /\ call[x].err = ErrWrite
              /\ call[x].gets = 1 /\ call[x].tries = 1 /\ call[x].xmit = 0
        /\ net = <<>>

\* C20: once UDPExporter.Close() has returned, the encoder is closed too, so a
\* SendMetadataEvent that starts afterwards fails with the closed error of its
\* Encode ("UDP encoder is closed"; SendMetadataEvent does not look at
\* e.closed itself), takes no socket and transmits nothing.
C20_MetadataAfterCloseRejected ==
    /\ e_closeRet => u_closed = 1
    /\ \A q \in Procs :
          LET f == call[q] IN
          (f.op = "SendMetadataEvent" /\ f.aftE) =>
              /\ Returned(f)
              /\ f.err = ErrEncoderClosed
              /\ ~f.open
              /\ Untouched(f)

\* A SendMetadataEvent after Close, with a datagram of an earlier Send on the
\* network and none of its own.
C20_Witness ==
    \E q \in Procs :
        /\ call[q].op = "SendMetadataEvent" /\ call[q].aftE /\ Returned(call[q])
        /\ call[q].err = ErrEncoderClosed
        /\ Len(net) = 1 /\ ncalls = 3

\* f is a SendMetadataEvent of the caching revision.
Cached(f)   == f.op = "CachedSendMetadataEvent"
\* f has read e.cachedMetadata (it is past initCachedMetadata).
PastRead(f) == Cached(f) /\ (f.miss \/ f.pc \in {"wget", "wfallback", "wwrite", "wput", "ret"})
\* The JSONs of the snapshots a call with arguments a can have built.
OwnJSONs(a) ==
    {ToJSON(NewMetadataEvent(h, a, t)) : h \in {Hostname, Unknown}, t \in 1..computations}

\* C13: the function given to metadataOnce.Do runs at most once, whatever the
\* number of callers; while it runs, every other caller of the metadata path
\* waits in initCachedMetadata and has read nothing; and when its serialization
\* succeeded, it is the only computation that ever executes: every caller,
\* also one that arrived while it ran, reads its bytes, computes nothing itself
\* and hands exactly these bytes to the socket.  (A failed serialization is
\* the case of C15.)
C13_ComputeOnce ==
    /\ onceRuns = (IF metadataOnce = "new" THEN 0 ELSE 1)
    /\ metadataOnce = "running" =>
          /\ \E q \in Procs : call[q].ran /\ call[q].pc \in {"host", "hres", "ojson"}
          /\ \A q \in Procs : (Cached(call[q]) /\ ~call[q].ran) =>
                                  call[q].pc = "once" /\ ~PastRead(call[q])
    /\ cachedMetadata # <<>> => computations = 1 /\ okComputations = 1
    /\ \A q \in Procs :
          LET f == call[q] IN
          (PastRead(f) /\ cachedMetadata # <<>>) =>
              /\ ~f.miss
              /\ f.comp = (IF f.ran THEN 1 ELSE 0)
              /\ f.open => f.data = cachedMetadata
              /\ f.xmit = 1 => OnWire(cachedMetadata)

\* Two first callers with different arguments, one arriving while the other
\* computes: one computation, and both sent its bytes.
C13_Witness ==
    \E q, r \in Procs :
        /\ Cached(call[q]) /\ call[q].ran
        /\ Cached(call[r]) /\ call[r].during /\ ~call[r].ran
        /\ call[q].a # call[r].a
        /\ call[q].xmit = 1 /\ call[r].xmit = 1
        /\ computations = 1
        /\ net = <<cachedMetadata, cachedMetadata>>

C15_AsClaimed ==
    /\ (metadataOnce = "done" /\ okComputations = 0) => cachedMetadata = <<>>
    /\ \A q \in Procs :
          (Cached(call[q]) /\ call[q].aftOk) => call[q].comp = 0

\* C15, amended: when the serialization in metadataOnce failed, nothing is
\* cached then or later: every call that reads e.cachedMetadata as nil builds
\* and serializes its own snapshot from its own arguments, also after such a
\* computation has succeeded, hands these bytes to the socket or returns the
\* serialization error, and leaves e.cachedMetadata nil.
C15_FailedOnceNeverCaches ==
    /\ (metadataOnce = "done" /\ okComputations = 0) => cachedMetadata = <<>>
    /\ \A q \in Procs :
          LET f == call[q] IN
          /\ (Cached(f) /\ f.miss) =>
                /\ metadataOnce = "done" /\ cachedMetadata = <<>>
                /\ f.pc \notin {"host", "hres", "fjson"} =>
                      /\ f.comp = (IF f.ran THEN 2 ELSE 1)
                      /\ f.open => f.data \in OwnJSONs(f.a)
                      /\ f.err = ErrToJSON => Returned(f) /\ Untouched(f) /\ ~f.open
          /\ (PastRead(f) /\ f.aftOk /\ f.was = <<>>) => f.miss

\* After a failed first attempt and a fallback that succeeded, a later call
\* computed again and sent its own bytes: two different datagrams.
C15_Witness ==
    \E q \in Procs :
        LET f == call[q] IN
        /\ Cached(f) /\ f.aftOk /\ f.miss /\ f.comp = 1
        /\ Returned(f) /\ f.err = Nil /\ f.xmit = 1
        /\ computations = 3 /\ okComputations = 2
        /\ Len(net) = 2 /\ net[1] # net[2] /\ net[2] = f.data

\* C16: os.Hostname() is called at most once, by the first caller of
\* getCachedHostname; a caller that arrives while it runs waits; every call,
\* direct or from a snapshot, returns the one stored value, which is the
\* hostname, or "unknown" when os.Hostname() failed, and every snapshot carries it.
C16_HostnameResolvedOnce ==
    /\ hostnameCalls = (IF hostnameOnce = "new" THEN 0 ELSE 1)
    /\ hostnameOnce = "new" => cachedHostname = ""
    /\ hostnameOnce = "done" => cachedHostname = (IF hostnameErr THEN Unknown ELSE Hostname)
    /\ hostnameOnce = "running" => Cardinality({q \in Procs : call[q].pc = "hres"}) = 1
    /\ \A q \in Procs :
          LET f == call[q] IN
          /\ f.host # "" => hostnameOnce = "done" /\ f.host = cachedHostname
          /\ (f.op = "getCachedHostname" /\ Returned(f)) => f.host = cachedHostname /\ f.host # ""
          /\ (Cached(f) /\ f.open) => f.data[3].b = cachedHostname

\* os.Hostname() failed once; a direct call and two snapshots got "unknown".
C16_Witness ==
    \E q, r \in Procs :
        /\ hostnameErr /\ hostnameCalls = 1
        /\ call[q].op = "getCachedHostname" /\ Returned(call[q]) /\ call[q].host = Unknown
        /\ Cached(call[r]) /\ call[r].host = Unknown /\ call[r].xmit = 1
        /\ computations >= 2

\* The JSONs a metadata snapshot can have.
MetadataJSONs ==
    {ToJSON(NewMetadataEvent(h, a, t)) :
        h \in {Hostname, Unknown}, a \in MetadataArgs, t \in 1..MaxCalls}

\* C17 as claimed: the datagram SendMetadataEvent transmits is the JSON of the
\* metadata snapshot (with its udp_destination and udp_buffer_size), handed to
\* the socket as it is, and not an event structure serialized by Encode.
C17_AsClaimed ==
    \A q \in Procs :
        LET f == call[q] IN
        (f.op = "SendMetadataEvent" /\ f.xmit = 1) =>
            /\ f.data \in MetadataJSONs
            /\ f.data # Datagram(f.v)

\* C18 as claimed: in the startup sequence the metadata datagram is the first
\* datagram on the network: no datagram of a Send precedes it.
C18_AsClaimed ==
    OnWire(Datagram(MetadataEvent)) => net[1] = Datagram(MetadataEvent)

\* C19 as claimed: Start returns only after the stream has signalled
\* readiness, and when the stream failed to start, what Start returns is that
\* failure wrapped, never nil.
C19_AsClaimed ==
    \A q \in Procs :
        LET f == call[q] IN
        (f.op = "Start" /\ Returned(f)) =>
            /\ stream \notin {"none", "spawned"}
            /\ stream \in {"failing", "failed"} => f.err = ErrStart

\* f wrote (or tried to write) a datagram to a socket.
Wrote(f) == f.op \in {"Encode", "Write", "Send"} /\ f.tries >= 1

Invalid(f) == f.op = "Encode" /\ f.open /\ f.v.shape # "GetEventsResponse"

\* C22: an Encode on an open encoder with a value that is not a
\* *tetragon.GetEventsResponse returns ErrInvalidEvent at once, builds no
\* datagram, takes no socket and transmits nothing; the step in which it
\* returns leaves the closed flag, the sockets and the network as they were, and
\* an Encode that starts afterwards is not rejected for it.
C22_InvalidEventRejected ==
    /\ [](\A q \in Procs :
            LET f == call[q] IN
            /\ Invalid(f) =>
                  /\ Returned(f) /\ f.err = ErrInvalidEvent
                  /\ Untouched(f) /\ f.data = <<>>
            /\ (f.op = "Encode" /\ f.err = ErrInvalidEvent) => f.v.shape # "GetEventsResponse"
            /\ (f.op = "Encode" /\ f.aftInv /\ ~f.aftU /\ f.open) =>
                  f.err \in {Nil, ErrInvalidEvent, ErrMarshal, ErrSocket, ErrWrite})
    /\ [][\A q \in Procs :
            (Invalid(call'[q]) /\ call'[q] # call[q]) => UNCHANGED <<u_closed, sock, net>>]_vars

\* After an Encode returned ErrInvalidEvent, an Encode of an event sent its
\* datagram and returned nil; the encoder is open.
C22_Witness ==
    \E q, r \in Procs :
        /\ Invalid(call[q]) /\ Returned(call[q])
        /\ call[r].op = "Encode" /\ call[r].aftInv /\ Returned(call[r])
        /\ call[r].err = Nil /\ call[r].xmit = 1 /\ net = <<Datagram(call[r].v)>>
        /\ u_closed = 0

\* Goroutine q is inside a call.
InFlight(q) == call[q].pc \notin {"idle", "ret"}

\* C23: when the goroutines call Send concurrently, every Send that has
\* returned returned nil or one of the errors of Encode; there are never more
\* datagrams than Sends; a Send transmits at most one datagram, and each
\* datagram enters the network in one step of one Send, which had transmitted
\* nothing before, as that Send's complete datagram; no socket is held by two
\* calls, and one Send at a time is past the mutex.
C23_ConcurrentSends ==
    /\ [](/\ Len(net) <= ncalls /\ ncalls <= MaxCalls
          /\ \A q \in Procs :
                LET f == call[q] IN
                /\ f.op \in {"none", "Send"}
                /\ f.xmit <= 1
                /\ f.xmit = 1 => OnWire(Datagram(f.v))
                /\ Returned(f) => f.err \in {Nil, ErrMarshal, ErrSocket, ErrWrite}
                /\ InFlight(q) => e_mu = q
          /\ \A q, r \in Procs :
                (q # r /\ call[q].conn # 0) => call[q].conn # call[r].conn)
    /\ [][net' # net =>
            \E q \in Procs :
                /\ net' = Append(net, Datagram(call[q].v))
                /\ call[q].xmit = 0 /\ call'[q].xmit = 1
                /\ \A r \in Procs \ {q} : call'[r] = call[r]]_vars

\* Three Sends by two goroutines, of events that are not all the same, each
\* with its own datagram on the network.
C23_Witness ==
    /\ ncalls = 3 /\ Len(net) = 3
    /\ \A q \in Procs : call[q].op = "Send" /\ Returned(call[q]) /\ call[q].err = Nil
    /\ call[1].v # call[2].v
    /\ \E i, j \in 1..3 : i # j /\ net[i] = Datagram(call[1].v) /\ net[j] = Datagram(call[2].v)

\* C24: NewUDPEncoder with a destination that does not resolve returns the
\* resolution error and no encoder, and none exists afterwards (no other
\* address is taken instead); with one that resolves it returns the encoder
\* for the resolved address.  The addr of an encoder never changes:
\* GetRemoteAddr returns it whatever calls were made, closed or not, and every
\* write is addressed to it.
C24_DestinationFixedAtConstruction ==
    /\ [](\A q \in Procs :
            LET f == call[q]
                addr == ResolveUDPAddr(f.a.address, f.a.port) IN
            /\ f.op = "NewUDPEncoder" =>
                  IF addr = NoAddr
                  THEN f.err = ErrResolve /\ f.to = NoEncoder
                  ELSE f.err = Nil /\ f.to = addr /\ u_addr = addr
            /\ f.op \notin {"none", "NewUDPEncoder"} => Built
            /\ (f.op = "GetRemoteAddr" /\ Returned(f)) => f.str = AddrString(u_addr)
            /\ f.tries >= 1 => f.to = u_addr)
    /\ [][/\ Built => u_addr' = u_addr
          /\ (~Built /\ \E q \in Procs : call'[q].err = ErrResolve /\ call'[q] # call[q])
                => ~Built']_vars

\* A construction with an address that does not resolve failed and left no
\* encoder; the next one resolved a host name, and GetRemoteAddr of that
\* encoder returned the resolved address.
C24_Witness ==
    \E q, r \in Procs :
        /\ call[q].op = "NewUDPEncoder" /\ call[q].a.address = "invalid-address"
        /\ call[q].err = ErrResolve
        /\ call[r].op = "GetRemoteAddr"
        /\ call[r].str = AddrString(ResolveUDPAddr("localhost", 65535))
        /\ call[r].str = <<"127.0.0.1", ":", 65535>>

\* C25 as claimed: once applyUDPMinimalMode has run, a configuration without
\* UDP output is as it was; with UDP output the health and gops addresses are
\* cleared if they were the defaults and kept otherwise, the metrics and pprof
\* addresses are empty, EnableK8s, the three policy-filter flags, EnablePodInfo,
\* EnableTracingPolicyCRD and EnableCRI are false, and UDPOutputEnabled is true.
C25_AsClaimed ==
    "minimal" \in applied =>
        IF ~Initial.UDPOutputEnabled
        THEN Config = Initial
        ELSE /\ Config.HealthServerAddress =
                    (IF Initial.HealthServerAddress = DefaultHealthServerAddress
                     THEN "" ELSE Initial.HealthServerAddress)
             /\ Config.GopsAddr =
                    (IF Initial.GopsAddr = DefaultGopsAddr THEN "" ELSE Initial.GopsAddr)
             /\ Config.MetricsServer = "" /\ Config.PprofAddr = ""
             /\ ~Config.EnableK8s
             /\ ~Config.EnablePolicyFilter
             /\ ~Config.EnablePolicyFilterCgroupMap
             /\ ~Config.EnablePolicyFilterDebug
             /\ ~Config.EnablePodInfo /\ ~Config.EnableTracingPolicyCRD
             /\ ~Config.EnableCRI
             /\ Config.UDPOutputEnabled

\* C26 as claimed: with UDP output enabled, a metrics server address that was
\* set explicitly is still set after applyUDPMinimalMode has run.
C26_AsClaimed ==
    ("minimal" \in applied /\ Initial.UDPOutputEnabled /\ Initial.MetricsServer # "") =>
        Config.MetricsServer = Initial.MetricsServer

\* C27: once applyUDPGRPCDisabling has run, the gRPC server address is empty
\* when UDP output is enabled and gRPC is not explicitly enabled, and in the
\* three other cases it is the address that was configured; the two flags are
\* as they were.
C27_GRPCDisabling ==
    "grpc" \in applied =>
        /\ Config.ServerAddress =
              (IF Initial.UDPOutputEnabled /\ ~Initial.GRPCEnabled
               THEN "" ELSE Initial.ServerAddress)
        /\ Config.UDPOutputEnabled = Initial.UDPOutputEnabled
        /\ Config.GRPCEnabled = Initial.GRPCEnabled

\* UDP output without --grpc-enabled: the configured address was cleared.
C27_Witness ==
    /\ "grpc" \in applied
    /\ Initial.UDPOutputEnabled /\ ~Initial.GRPCEnabled
    /\ Initial.ServerAddress = DefaultServerAddress
    /\ Config.ServerAddress = ""

\* C28 as claimed: a call whose write on its pooled socket failed does not put
\* the socket back: when it returns, the socket is not in the pool.
C28_AsClaimed ==
    [][\A q \in Procs :
          (call[q].pc \in {"put", "wput"} /\ call[q].err # Nil /\ call'[q].pc = "ret")
              => sock'[call[q].conn] # "pooled"]_vars

\* The goroutines that hold socket s.
Holders(s) == {q \in Procs : call[q].conn = s}

\* C29: every socket is in one place: a socket checked out of the pool is held
\* by exactly one call, which is in flight between its Get and its Put; a
\* socket that is in the pool, closed or not created is held by no call.
C29_SocketOwnershipExclusive ==
    /\ \A s \in Socks :
          IF sock[s] = "held" THEN Cardinality(Holders(s)) = 1 ELSE Holders(s) = {}
    /\ \A q \in Procs :
          /\ call[q].conn \in Socks \cup {0}
          /\ call[q].conn # 0 <=> call[q].pc \in {"write", "put", "wwrite", "wput"}

\* After an earlier call has sent its datagram, an Encode and a Write are in
\* flight, each holding a socket of its own; no socket is left.
C29_Witness ==
    \E q, r \in Procs :
        /\ call[q].op = "Encode" /\ call[r].op = "Write"
        /\ call[q].conn # 0 /\ call[r].conn # 0 /\ call[q].conn # call[r].conn
        /\ ncalls = 3 /\ Len(net) = 1
        /\ \A s \in Socks : sock[s] = "held"

\* C30 as claimed: a Get that finds a socket in the pool returns a socket of
\* the pool; it neither creates a socket nor returns nil.
C30_AsClaimed ==
    [][\A q \in Procs :
          ( /\ call[q].pc \in {"get", "wget"} /\ call'[q].pc # call[q].pc
            /\ \E s \in Socks : sock[s] = "pooled" )
              => /\ call'[q].conn # 0
                 /\ sock[call'[q].conn] = "pooled"]_vars

\* The sockets idle in connPool.
Pooled == {s \in DOMAIN sock : sock[s] = "pooled"}

C32_AsClaimed == Cardinality(Pooled) <= poolSize

\* A Send that has returned and its outcome.
Exported(f) == f.err = Nil /\ f.allow # "rejected"
Dropped(f)  == f.err = Nil /\ f.allow = "rejected"
Errored(f)  == f.err # Nil
\* In this step the Encode of q's Send returns, and so does the Send.
SendReturns(q) ==
    /\ call[q].op = "Send" /\ InFlight(q)
    /\ Returned(call'[q])
\* In this step q calls Send and the rate limiter rejects the event.
SendRejected(q) ==
    /\ ~InFlight(q) /\ ncalls' = ncalls + 1
    /\ ~e_closed /\ rateLimiter /\ ~Allow
    /\ call'[q].op = "Send" /\ Returned(call'[q]) /\ Dropped(call'[q])

\* C33: eventsExportedTotal grows by one exactly in the step in which the
\* Encode of a Send returns nil, and rateLimitDropped grows by one exactly in
\* the step in which the rate limiter rejects a Send; both start at zero, so
\* each equals the number of such Sends.  A Send that returns an error changes
\* neither, and a Send that has returned was exported (one datagram, counted
\* once), dropped (no datagram, counted once as a drop) or has returned an
\* error (counted nowhere), never two of these.
C33_ExportAccounting ==
    /\ [](\A q \in Procs :
            (call[q].op = "Send" /\ Returned(call[q])) =>
               /\ Exported(call[q]) => call[q].dExp = 1 /\ call[q].dDrop = 0
                                        /\ call[q].xmit = 1
               /\ Dropped(call[q])  => call[q].dExp = 0 /\ call[q].dDrop = 1
                                        /\ call[q].xmit = 0
               /\ Errored(call[q])  => call[q].dExp = 0 /\ call[q].dDrop = 0
                                        /\ call[q].allow # "rejected"
                                        /\ call[q].xmit = 0)
    /\ [][/\ eventsExportedTotal' # eventsExportedTotal =>
               /\ eventsExportedTotal' = eventsExportedTotal + 1
               /\ \E q \in Procs : SendReturns(q) /\ Exported(call'[q])
          /\ rateLimitDropped' # rateLimitDropped =>
               /\ rateLimitDropped' = rateLimitDropped + 1
               /\ \E q \in Procs : SendRejected(q)
          /\ \A q \in Procs :
               /\ SendReturns(q) =>
                     /\ rateLimitDropped' = rateLimitDropped
                     /\ eventsExportedTotal' =
                           eventsExportedTotal + (IF Exported(call'[q]) THEN 1 ELSE 0)
               /\ (SendRejected(q) /\ call'[q] # call[q]) =>
                     /\ rateLimitDropped' = rateLimitDropped + 1
                     /\ eventsExportedTotal' = eventsExportedTotal]_vars

\* Three Sends on an open exporter: one exported, one dropped by the rate
\* limiter, one that returned the error of its write.
C33_Witness ==
    /\ ncalls = 3 /\ ~e_closed
    /\ eventsExportedTotal = 1 /\ rateLimitDropped = 1 /\ Len(net) = 1
    /\ \E q, r \in Procs :
          /\ call[q].op = "Send" /\ Returned(call[q]) /\ Dropped(call[q])
          /\ call[r].op = "Send" /\ Returned(call[r]) /\ call[r].err = ErrWrite

\* C34 as claimed: a goroutine that is free to call Send can always begin the
\* call and have its closed check made, whatever the other Sends are doing: no
\* Send in flight makes it wait.
C34_AsClaimed ==
    \A q \in Procs :
        CanCall(q) => ENABLED (\E event \in GetEventsResponses : Send(q, event))

\* C35 as claimed: once UDPEncoder.Close() has returned and no call is in
\* flight, every socket the encoder created is closed.
C35_AsClaimed ==
    (u_closeRet /\ \A q \in Procs : ~InFlight(q)) =>
        \A s \in DOMAIN sock : sock[s] \in {"unborn", "closed"}

\* q runs UDPExporter.Send / UDPExporter.Close and has not returned.
InSend(q)  == call[q].op = "Send" /\ InFlight(q)
InClose(q) == call[q].op = "Close" /\ InFlight(q)

\* C36: UDPExporter.Send and UDPExporter.Close exclude each other.  A Send
\* past its closed check holds the mutex and the exporter is open, no Close is
\* in flight and none has returned; a Close in flight holds the mutex and no
\* Send is in flight.  So a Send writes its datagram only while no Close has
\* set the flag or returned, and a Send that begins once the flag is set
\* returns the closed error and sends nothing.
C36_CloseExcludesSend ==
    /\ [](\A q \in Procs :
            /\ InSend(q) =>
                  /\ e_mu = q /\ ~e_closed /\ ~e_closeRet
                  /\ \A r \in Procs : ~InClose(r)
            /\ InClose(q) =>
                  /\ e_mu = q /\ e_closed
                  /\ \A r \in Procs : ~InSend(r))
    /\ [][\A q \in Procs :
            /\ (call'[q].op = "Send" /\ call'[q].xmit > call[q].xmit) =>
                  ~e_closed /\ ~e_closeRet /\ ~e_closed' /\ ~e_closeRet'
            /\ ( /\ e_closed /\ ~InFlight(q) /\ call'[q] # call[q]
                 /\ call'[q].op = "Send" ) =>
                  /\ Returned(call'[q]) /\ call'[q].err = ErrExporterClosed
                  /\ net' = net]_vars

\* A Send has sent its datagram and returned, Close has then closed the
\* exporter and returned, and a Send that began afterwards got the closed error.
C36_Witness ==
    /\ e_closeRet /\ Len(net) = 1 /\ eventsExportedTotal = 1 /\ ncalls = 3
    /\ \E q, r \in Procs :
          /\ call[q].op = "Close" /\ Returned(call[q])
          /\ call[r].op = "Send" /\ Returned(call[r])
          /\ call[r].err = ErrExporterClosed

\* f is a call on the encoder that does not pass through Send's mutex.
Direct(f) == f.op \in {"Encode", "Write", "SendMetadataEvent"}

\* C37: UDPEncoder.Close() waits for nobody and stops nobody.  A goroutine free
\* to call it can do so whatever the other calls are doing; the step stores the
\* flag and touches no socket, no datagram and no call in flight; and every
\* step of a call past its closed check stays possible afterwards.  A call that
\* asked the pool for a socket after Close had returned had begun, and read
\* the flag as open, before Close returned; a call that began after Close
\* returned has the closed error and has touched no socket.
C37_EncoderCloseDoesNotWait ==
    /\ [](\A q \in Procs :
            /\ CanCall(q) => ENABLED EncoderClose(q)
            /\ call[q].pc = "get"       => ENABLED EncodeGet(q)
            /\ call[q].pc = "fallback"  => ENABLED EncodeFallback(q)
            /\ call[q].pc = "write"     => ENABLED EncodeWrite(q)
            /\ call[q].pc = "put"       => ENABLED EncodePut(q)
            /\ call[q].pc = "wget"      => ENABLED WriteGet(q)
            /\ call[q].pc = "wfallback" => ENABLED WriteFallback(q)
            /\ call[q].pc = "wwrite"    => ENABLED WriteSend(q)
            /\ call[q].pc = "wput"      => ENABLED WritePut(q)
            /\ call[q].late => call[q].open /\ ~call[q].aftU
            /\ (Direct(call[q]) /\ call[q].aftU) =>
                  /\ Returned(call[q]) /\ call[q].err = ErrEncoderClosed
                  /\ ~call[q].late /\ call[q].gets = 0)
    /\ [][\A q \in Procs :
            (call'[q].op = "EncoderClose" /\ call'[q] # call[q]) =>
               /\ u_closed' = 1 /\ u_closeRet'
               /\ sock' = sock /\ net' = net
               /\ \A r \in Procs \ {q} : call'[r] = call[r]]_vars

\* An Encode read the flag as open, UDPEncoder.Close() then returned, and the
\* Encode afterwards got a socket from the pool, sent its datagram, put the
\* socket back and returned nil.
C37_Witness ==
    \E q, r \in Procs :
        /\ call[r].op = "EncoderClose" /\ Returned(call[r])
        /\ u_closed = 1 /\ u_closeRet
        /\ call[q].op = "Encode" /\ Returned(call[q]) /\ call[q].late
        /\ call[q].gets = 1 /\ call[q].xmit = 1 /\ call[q].err = Nil
        /\ net = <<call[q].data>>
        /\ \E s \in DOMAIN sock : sock[s] = "pooled"

\* C38: a call of Encode or Write that has returned holds no socket, whatever
\* it returned.  The step that ends a call which got a socket from the pool
\* puts that socket into the pool; the step of a call which the pool gave
\* nothing creates one socket, and leaves it closed, or creates none; a closed
\* socket stays closed, and a socket enters the pool only out of the hands of
\* the call that held it.
C38_NoCallKeepsASocket ==
    /\ [](\A q \in Procs :
            /\ ~InFlight(q) => call[q].conn = 0
            /\ call[q].pc \in {"fallback", "wfallback"} => call[q].conn = 0
            /\ Returned(call[q]) => \A s \in DOMAIN sock : Holders(s) # {q})
    /\ [][/\ \A q \in Procs :
               /\ (call[q].pc \in {"put", "wput"} /\ call'[q] # call[q]) =>
                     /\ Returned(call'[q]) /\ call'[q].conn = 0
                     /\ call'[q].err = call[q].err
                     /\ sock[call[q].conn] = "held"
                     /\ sock' = [sock EXCEPT ![call[q].conn] = "pooled"]
               /\ (call[q].pc \in {"fallback", "wfallback"} /\ call'[q] # call[q]) =>
                     /\ Returned(call'[q]) /\ call'[q].conn = 0
                     /\ \A s \in DOMAIN sock :
                           sock'[s] # sock[s] => sock[s] = "unborn" /\ sock'[s] = "closed"
                     /\ Cardinality({s \in DOMAIN sock : sock'[s] # sock[s]}) =
                           call'[q].tries
          /\ \A s \in DOMAIN sock :
               /\ sock[s] = "closed" => sock'[s] = "closed"
               /\ (sock'[s] = "closed" /\ sock[s] # "closed") => sock[s] = "unborn"
               /\ (sock'[s] = "pooled" /\ sock[s] # "pooled") =>
                     /\ sock[s] = "held"
                     /\ \E q \in Procs : call[q].conn = s /\ call'[q].conn = 0]_vars

\* An Encode got a socket, failed to write and returned the error; a Write
\* was given nothing by the pool, created its own socket, sent and closed it:
\* both have returned, the first socket is in the pool, the second is closed.
C38_Witness ==
    \E q, r \in Procs :
        /\ call[q].op = "Encode" /\ Returned(call[q]) /\ call[q].err = ErrWrite
        /\ call[q].gets = 1 /\ call[q].conn = 0
        /\ call[r].op = "Write" /\ Returned(call[r]) /\ call[r].err = Nil
        /\ call[r].gets = 0 /\ call[r].xmit = 1 /\ call[r].conn = 0
        /\ \E s, t \in DOMAIN sock : sock[s] = "pooled" /\ sock[t] = "closed"

\* In this step q calls Send.
SendBegins(q) ==
    /\ ~InFlight(q) /\ ncalls' = ncalls + 1
    /\ call'[q].op = "Send" /\ call'[q] # call[q]

\* C39: with the encoder closed and the exporter open, a Send does not see the
\* encoder's flag at its gate: it asks the rate limiter first, and unless the
\* limiter rejects it (then it is dropped as on an open encoder, and returns
\* nil) it takes its token and goes on to Encode holding the mutex.
\* Encode then returns "UDP encoder is closed", and so does Send: no socket is
\* taken, no datagram is sent, neither counter moves, the token is not given
\* back and the exporter stays open.
C39_EncoderClosedExporterOpen ==
    /\ [](\A q \in Procs :
            ( /\ call[q].op = "Send" /\ Returned(call[q])
              /\ call[q].err = ErrEncoderClosed ) =>
               /\ Untouched(call[q])
               /\ call[q].dExp = 0 /\ call[q].dDrop = 0 /\ call[q].drop = 0
               /\ call[q].allow = IF rateLimiter THEN "granted" ELSE "none")
    /\ [][\A q \in Procs :
            /\ (SendBegins(q) /\ u_closed = 1 /\ ~e_closed /\ (rateLimiter => Allow)) =>
                  /\ call'[q].pc = "enc" /\ e_mu' = q
                  /\ tokens' = IF rateLimiter THEN tokens - 1 ELSE tokens
                  /\ call'[q].allow = IF rateLimiter THEN "granted" ELSE "none"
                  /\ ~e_closed' /\ net' = net
                  /\ eventsExportedTotal' = eventsExportedTotal
                  /\ rateLimitDropped' = rateLimitDropped
            /\ (SendBegins(q) /\ u_closed = 1 /\ ~e_closed /\ rateLimiter /\ ~Allow) =>
                  /\ Returned(call'[q]) /\ Dropped(call'[q])
                  /\ rateLimitDropped' = rateLimitDropped + 1
                  /\ tokens' = tokens /\ ~e_closed' /\ net' = net
            /\ ( /\ call[q].op = "Send" /\ call[q].pc = "enc" /\ call'[q] # call[q]
                 /\ u_closed = 1 ) =>
                  /\ Returned(call'[q]) /\ call'[q].err = ErrEncoderClosed
                  /\ e_mu' = 0 /\ e_closed' = e_closed
                  /\ tokens' = tokens /\ net' = net /\ sock' = sock
                  /\ eventsExportedTotal' = eventsExportedTotal
                  /\ rateLimitDropped' = rateLimitDropped]_vars

\* The encoder had been closed by its owner when Send was called on the open
\* exporter: the limiter's only token is gone, Send has returned the encoder's
\* error, nothing was sent or counted, and the exporter is still open.
C39_Witness ==
    \E q \in Procs :
        /\ call[q].op = "Send" /\ Returned(call[q]) /\ call[q].aftU
        /\ call[q].err = ErrEncoderClosed /\ call[q].allow = "granted"
        /\ rateLimiter /\ tokens = 0 /\ u_closed = 1 /\ ~e_closed /\ ~e_closeRet
        /\ net = <<>> /\ eventsExportedTotal = 0 /\ rateLimitDropped = 0
        /\ limiterDrops = 0

\* C40: SendMetadataEvent goes to the encoder past everything Send does first.
\* A goroutine free to call it can always do so, whoever holds the exporter's
\* mutex, whether or not the limiter has a token and whether or not the
\* exporter is closed; no step of it, the returning one included and whatever
\* it returns, changes the mutex, the limiter's tokens and drops, the export
\* and drop counters or the exporter's closed flag.
C40_MetadataBypassesGate ==
    /\ [](\A q \in Procs :
            /\ CanCall(q) => ENABLED SendMetadataEvent(q)
            /\ call[q].op = "SendMetadataEvent" =>
                  /\ call[q].allow = "none" /\ call[q].drop = 0
                  /\ call[q].dExp = 0 /\ call[q].dDrop = 0
                  /\ e_mu # q)
    /\ [][\A q \in Procs :
            (call'[q].op = "SendMetadataEvent" /\ call'[q] # call[q]) =>
               /\ e_mu' = e_mu /\ tokens' = tokens /\ limiterDrops' = limiterDrops
               /\ rateLimitDropped' = rateLimitDropped
               /\ eventsExportedTotal' = eventsExportedTotal
               /\ e_closed' = e_closed /\ e_closeRet' = e_closeRet]_vars

\* A Send took the limiter's only token and sent its event; with no token
\* left, SendMetadataEvent then sent the metadata event and returned nil,
\* counted by no counter.
C40_Witness ==
    \E q, r \in Procs :
        /\ rateLimiter /\ tokens = 0 /\ ncalls = 2
        /\ call[r].op = "Send" /\ Returned(call[r]) /\ Exported(call[r])
        /\ call[q].op = "SendMetadataEvent" /\ Returned(call[q])
        /\ call[q].err = Nil /\ call[q].xmit = 1
        /\ net = <<call[r].data, call[q].data>>
        /\ eventsExportedTotal = 1 /\ rateLimitDropped = 0
====
